---- MODULE Spec2Model ----
(***************************************************************************)
(* httpie-oapi: OpenAPI-aware completion for HTTPie.                       *)
(*                                                                         *)
(* Strings are sequences of one-character strings, so that prefix tests,   *)
(* substring search, slicing and formatting are computed and not assumed.  *)
(* Option<T> is a sequence of length 0 (None) or 1 (Some).                 *)
(***************************************************************************)
EXTENDS Integers, Sequences, FiniteSets, TLC

VARIABLES
    line,        \* Tokens::new argument / CompleteCommand.line
    cursor_pos,  \* Tokens.cursor_pos / CompleteCommand.cursor_pos
    tokens,      \* Tokens.tokens
    tok_state,   \* "input" | "ok" (Tokens::new returned) | "panic"
    cur,         \* Option<index into tokens>: what Tokens::current_token returned
    params,      \* EndPoint.params
    sorted,      \* the Vec returned by EndPoint::get_params_sort
    sort_pc,     \* "new" | "sorted" | "resorted"
    apis,        \* Config.apis as persisted in config.toml: name -> Option<ApiSpec>
    cache_file,  \* {name}.json in the cache directory: name -> Option<document>
    endpoints_file, \* {name}.endpoints.json: name -> Option<content>
    pc,          \* "shell" (no command running) | "done" (a command has ended)
    cmd,         \* the command that ended last
    order,       \* the order in which Config::list_apis returned the APIs
    matched,     \* Option<name>: matched_api of CompleteCommand::run
    rule,        \* which branch of CompleteCommand::run produced the output
    eps,         \* the EndPoints that get_endpoints returned to the command
    did_fetch,   \* whether the command sent a request for a spec document
    out,         \* the lines printed to stdout
    out_src,     \* for each printed line, <<endpoint index, param index>> of its origin
    result,      \* "Ok" | "Err" | "exit1" | "panic"
    args,        \* the arguments the command was given
    rendered,    \* Param::fish_complete_format of each entry of params
    reference,   \* the pointer given to resolve_schema_reference
    document,    \* the parsed OpenAPI document
    resolved,    \* what resolve_schema_reference returned: Option<Schema>
    converted,   \* the EndPoints that From<OpenAPI> built
    res_pc,      \* "new" | "resolved" | "built"
    raw_args,    \* PathVarCommand.args
    url_like,    \* is_url_like of each of the arguments
    iter_order,  \* the order in which the HashSet path_vars was iterated
    processed,   \* what process_command_line returned
    pv_pc,       \* "new" | "classified" | "processed"
    cell,        \* ApiSpec.endpoints of one ApiSpec object: Option<EndPoints>
    got,         \* what each get_endpoints call on that object returned, in order
    last_call,   \* the last call on that object and what it did
    api_pc       \* "idle" | "running" (the process holding the object) | "exited"

vars == <<line, cursor_pos, tokens, tok_state, cur, params, sorted, sort_pc, apis,
          cache_file, endpoints_file, pc, cmd, order, matched, rule, eps, did_fetch,
          out, out_src, result, args, rendered, reference, document, resolved,
          converted, res_pc, raw_args, url_like, iter_order, processed, pv_pc,
          cell, got, last_call, api_pc>>

tokVars == <<line, cursor_pos, tokens, tok_state, cur>>
sortVars == <<params, sorted, sort_pc, rendered>>
resVars == <<reference, document, resolved, converted, res_pc>>
pvVars == <<raw_args, url_like, iter_order, processed, pv_pc>>
memoVars == <<cell, got, last_call, api_pc>>
otherVars == <<pvVars, memoVars>>
pureVars == <<sortVars, resVars, otherVars>>
diskVars == <<apis, cache_file, endpoints_file>>
runVars == <<pc, cmd, order, matched, rule, eps, did_fetch, out, out_src, result, args>>
cmdVars == <<diskVars, runVars>>

None == <<>>
Some(x) == <<x>>

TAB == "\t"

----------------------------------------------------------------------------
(* str primitives *)

\* str::starts_with
StartsWith(s, p) == Len(p) <= Len(s) /\ SubSeq(s, 1, Len(p)) = p

\* &s[from..] with a byte offset from <= s.len()
SliceFrom(s, from) == SubSeq(s, from + 1, Len(s))

\* Iterator::find / position over a set of indices: the least one, as an Option
First(hits) ==
    IF hits = {} THEN None ELSE Some(CHOOSE i \in hits : \A j \in hits : i <= j)

\* str::find: Some(byte offset of the first occurrence) or None
Find(hay, needle) ==
    First({i \in 0..(Len(hay) - Len(needle)) :
              SubSeq(hay, i + 1, i + Len(needle)) = needle})

\* str::contains
Contains(hay, needle) == Find(hay, needle) # None

\* str::strip_prefix(..).unwrap_or(s)
StripPrefixOr(s, p) == IF StartsWith(s, p) THEN SliceFrom(s, Len(p)) ELSE s

\* Option::unwrap_or
UnwrapOr(opt, d) == IF opt = None THEN d ELSE opt[1]

----------------------------------------------------------------------------
(* shell_words::split, the word splitter Tokens::new calls *)

IsBlank(c) == c \in {" ", "\t", "\n"}

RECURSIVE SplitFrom(_, _, _, _, _)
\* One step per character; st is the splitter's state, word the word being
\* built, words the finished words.  Result: [ok, words]; ok = FALSE is
\* Err(ParseError).
SplitFrom(s, i, st, word, words) ==
    LET eof == i > Len(s)
        c == IF eof THEN "" ELSE s[i]
        go(st2, word2, words2) == SplitFrom(s, i + 1, st2, word2, words2)
    IN  CASE st = "Delimiter" ->
               IF eof THEN [ok |-> TRUE, words |-> words]
               ELSE IF c = "'" THEN go("SingleQuoted", word, words)
               ELSE IF c = "\"" THEN go("DoubleQuoted", word, words)
               ELSE IF c = "\\" THEN go("Backslash", word, words)
               ELSE IF IsBlank(c) THEN go("Delimiter", word, words)
               ELSE IF c = "#" THEN go("Comment", word, words)
               ELSE go("Unquoted", Append(word, c), words)
          [] st = "Backslash" ->
               IF eof THEN [ok |-> TRUE, words |-> Append(words, Append(word, "\\"))]
               ELSE IF c = "\n" THEN go("Delimiter", word, words)
               ELSE go("Unquoted", Append(word, c), words)
          [] st = "Unquoted" ->
               IF eof THEN [ok |-> TRUE, words |-> Append(words, word)]
               ELSE IF c = "'" THEN go("SingleQuoted", word, words)
               ELSE IF c = "\"" THEN go("DoubleQuoted", word, words)
               ELSE IF c = "\\" THEN go("UnquotedBackslash", word, words)
               ELSE IF IsBlank(c) THEN go("Delimiter", <<>>, Append(words, word))
               ELSE go("Unquoted", Append(word, c), words)
          [] st = "UnquotedBackslash" ->
               IF eof THEN [ok |-> TRUE, words |-> Append(words, Append(word, "\\"))]
               ELSE IF c = "\n" THEN go("Unquoted", word, words)
               ELSE go("Unquoted", Append(word, c), words)
          [] st = "SingleQuoted" ->
               IF eof THEN [ok |-> FALSE, words |-> <<>>]
               ELSE IF c = "'" THEN go("Unquoted", word, words)
               ELSE go("SingleQuoted", Append(word, c), words)
          [] st = "DoubleQuoted" ->
               IF eof THEN [ok |-> FALSE, words |-> <<>>]
               ELSE IF c = "\"" THEN go("Unquoted", word, words)
               ELSE IF c = "\\" THEN go("DoubleQuotedBackslash", word, words)
               ELSE go("DoubleQuoted", Append(word, c), words)
          [] st = "DoubleQuotedBackslash" ->
               IF eof THEN [ok |-> FALSE, words |-> <<>>]
               ELSE IF c = "\n" THEN go("DoubleQuoted", word, words)
               ELSE IF c \in {"$", "\"", "\\"}  \* and the grave accent, no character of the model
                    THEN go("DoubleQuoted", Append(word, c), words)
               ELSE go("DoubleQuoted", Append(Append(word, "\\"), c), words)
          [] st = "Comment" ->
               IF eof THEN [ok |-> TRUE, words |-> words]
               ELSE IF c = "\n" THEN go("Delimiter", word, words)
               ELSE go("Comment", word, words)

Split(s) == SplitFrom(s, 1, "Delimiter", <<>>, <<>>)

\* Result<Vec<String>, ParseError>::unwrap_or_default
WordsOrDefault(r) == IF r.ok THEN r.words ELSE <<>>

\* shell_words::split(line).unwrap_or_default()
SplitOrDefault(s) == WordsOrDefault(Split(s))

----------------------------------------------------------------------------
(* Tokens *)

\* the offset of one word: line[current_pos..].find(&token).unwrap_or(0) + current_pos
TokenStart(ln, current_pos, token) ==
    UnwrapOr(Find(SliceFrom(ln, current_pos), token), 0) + current_pos

\* Token { text, start, end } with end = start + token.len()
Token(text, start) == [text |-> text, start |-> start, end |-> start + Len(text)]

RECURSIVE TokensLoop(_, _, _, _, _)
\* The for loop of Tokens::new over the split words.  Slicing the line at an
\* offset beyond its length panics.
TokensLoop(ln, words, k, current_pos, acc) ==
    IF k > Len(words) THEN [panic |-> FALSE, tokens |-> acc]
    ELSE IF current_pos > Len(ln) THEN [panic |-> TRUE, tokens |-> acc]
    ELSE TokensLoop(ln, words, k + 1,
                    TokenStart(ln, current_pos, words[k]) + Len(words[k]),
                    Append(acc, Token(words[k], TokenStart(ln, current_pos, words[k]))))

TokensNew(ln) == TokensLoop(ln, SplitOrDefault(ln), 1, 0, <<>>)

\* Tokens::current_token: index of the first token whose inclusive span holds
\* the cursor, as an Option
current_token(toks, cp) ==
    First({i \in 1..Len(toks) : cp >= toks[i].start /\ cp <= toks[i].end})

\* Tokens::find_token_starting_with: index of the first such token, as an Option
find_token_starting_with(toks, prefix) ==
    First({i \in 1..Len(toks) : StartsWith(toks[i].text, prefix)})

\* Tokens::has_token_starting_with
has_token_starting_with(toks, text) ==
    \E i \in 1..Len(toks) : StartsWith(toks[i].text, text)

----------------------------------------------------------------------------
(* Param, ParamSource *)

\* every source written with the operator of Body
httpie_operator_of_body(source) == <<"=">>

\* ParamSource::httpie_operator
httpie_operator(source) ==
    CASE source \in {"Body", "Form", "Path"} -> <<"=">>
      [] source = "Query" -> <<"=", "=">>
      [] source = "Header" -> <<":">>

\* ParamSource::httpie_param_prefix
httpie_param_prefix(source) == IF source = "Path" THEN <<":">> ELSE <<>>

\* Param::httpie_param_format
httpie_param_format(p) ==
    httpie_param_prefix(p.source) \o p.name \o httpie_operator(p.source)

\* Param::fish_complete_format
param_fish_complete_format(p) ==
    LET desc == UnwrapOr(p.description, p.name)
        shown == IF p.required THEN desc ELSE <<"[">> \o desc \o <<"]">>
    IN  httpie_param_format(p) \o <<TAB>> \o shown

----------------------------------------------------------------------------
(* EndPoint, EndPoints *)

\* the key of sort_by_key(|param| !param.required): false sorts before true
SortKey(p) == IF p.required THEN 0 ELSE 1

\* one insertion of a stable sort: x goes behind every element whose key is
\* not greater than its own
RECURSIVE InsertByKey(_, _)
InsertByKey(seq, x) ==
    IF seq = <<>> THEN <<x>>
    ELSE IF SortKey(seq[Len(seq)]) <= SortKey(x) THEN Append(seq, x)
    ELSE Append(InsertByKey(SubSeq(seq, 1, Len(seq) - 1), x), seq[Len(seq)])

RECURSIVE SortFrom(_, _, _)
SortFrom(ps, k, acc) ==
    IF k > Len(ps) THEN acc ELSE SortFrom(ps, k + 1, InsertByKey(acc, ps[k]))

IsRequired(p) == p.required
IsOptional(p) == ~p.required

\* get_params_sort without its sort_by_key call
get_params_unsorted(ps) == ps

\* get_params_sort with the key param.required in place of !param.required
get_params_sort_by_required(ps) == SelectSeq(ps, IsOptional) \o SelectSeq(ps, IsRequired)

\* EndPoint::get_params_sort: a sorted clone of the params (slice::sort_by_key
\* is a stable sort)
get_params_sort(ps) == SortFrom(ps, 1, <<>>)

\* EndPoint::fish_complete_format
fish_complete_format(ep, base_url) ==
    base_url \o ep.path \o <<TAB>> \o UnwrapOr(ep.summary, ep.path)

\* filter with starts_with in place of contains
filter_by_prefix(endpoints, path) ==
    LET Keep(i) == StartsWith(endpoints[i].path, path)
    IN  SelectSeq([i \in 1..Len(endpoints) |-> i], Keep)

\* EndPoints::filter, as the indices of the endpoints kept, in order
filter(endpoints, path) ==
    LET Keep(i) == Contains(endpoints[i].path, path)
    IN  SelectSeq([i \in 1..Len(endpoints) |-> i], Keep)

\* EndPoints::all
all(endpoints) == [i \in 1..Len(endpoints) |-> i]

----------------------------------------------------------------------------
(* ApiSpec: the endpoint cache.  An ApiSpec is [name, spec_url, base_url];   *)
(* its memoized endpoints are None when a process starts.  A cache file is  *)
(* None when it does not exist.  The content of {name}.endpoints.json is    *)
(* [readable, endpoints]: readable = FALSE is a file that cannot be read or *)
(* does not parse.  A spec document is [parses, resolved]: whether it is an *)
(* OpenAPI document and the EndPoints it resolves to.                       *)

BadUrl == "not a url"

\* Url::parse(&self.spec_url) succeeds
UrlParses(url) == url # BadUrl

\* EndPoints::try_from_openapi: Some(endpoints) or None for a parse error
try_from_openapi(doc) == IF doc.parses THEN Some(doc.resolved) ELSE None

\* EndPoints::try_from_json on the content of an existing file
try_from_json(content) == IF content.readable THEN Some(content.endpoints) ELSE None

\* a refresh that saves the resolved endpoints and not the document
WriteEndpointsOnly(name, doc, endpoints, cf, ef) ==
    [exit |-> FALSE, endpoints |-> endpoints,
     cf |-> cf,
     ef |-> [ef EXCEPT ![name] = Some([readable |-> TRUE, endpoints |-> endpoints])],
     fetch |-> TRUE]

\* the two writes that end refresh_endpoints_cache: std::fs::write of the
\* document and EndPoints::save_to_file
WriteCaches(name, doc, endpoints, cf, ef) ==
    [exit |-> FALSE, endpoints |-> endpoints,
     cf |-> [cf EXCEPT ![name] = Some(doc)],
     ef |-> [ef EXCEPT ![name] = Some([readable |-> TRUE, endpoints |-> endpoints])],
     fetch |-> TRUE]

\* ApiSpec::refresh_endpoints_cache.  response is what the server answers:
\* None for a failed request, a non-success status or an unreadable body,
\* else Some(document).  exit = TRUE is std::process::exit(1).
refresh_endpoints_cache(api, response, cf, ef) ==
    IF ~UrlParses(api.spec_url)
    THEN [exit |-> TRUE, endpoints |-> <<>>, cf |-> cf, ef |-> ef, fetch |-> FALSE]
    ELSE IF response = None \/ try_from_openapi(response[1]) = None
    THEN [exit |-> TRUE, endpoints |-> <<>>, cf |-> cf, ef |-> ef, fetch |-> TRUE]
    ELSE WriteCaches(api.name, response[1], try_from_openapi(response[1])[1], cf, ef)

\* get_endpoints that never looks at the endpoints cache file
get_endpoints_refreshing(api, response, cf, ef) ==
    refresh_endpoints_cache(api, response, cf, ef)

\* ApiSpec::get_endpoints, first call of a process
get_endpoints(api, response, cf, ef) ==
    IF ef[api.name] # None /\ try_from_json(ef[api.name][1]) # None
    THEN [exit |-> FALSE, endpoints |-> try_from_json(ef[api.name][1])[1],
          cf |-> cf, ef |-> ef, fetch |-> FALSE]
    ELSE refresh_endpoints_cache(api, response, cf, ef)

\* get_endpoints that looks at the disk and the network on every call
get_endpoints_every_time(memo, api, response, cf, ef) ==
    [call |-> get_endpoints(api, response, cf, ef), read |-> ef[api.name] # None]

\* ApiSpec::get_endpoints on an object whose endpoints cell holds memo: what
\* the call does, and whether it read the endpoints cache file
get_endpoints_in_process(memo, api, response, cf, ef) ==
    IF memo # None
    THEN [call |-> [exit |-> FALSE, endpoints |-> memo[1], cf |-> cf, ef |-> ef,
                    fetch |-> FALSE],
          read |-> FALSE]
    ELSE [call |-> get_endpoints(api, response, cf, ef), read |-> ef[api.name] # None]

----------------------------------------------------------------------------
(* CompleteCommand::run *)

\* the params of one matching endpoint that rule 3 prints, in print order
EmittedParams(ep, toks) ==
    LET NotTyped(p) == ~has_token_starting_with(toks, p.name)
    IN  SelectSeq(get_params_sort(ep.params), NotTyped)

\* [ep, param] for every line printed for endpoint i
Origins(i, ps) == [j \in 1..Len(ps) |-> [ep |-> i, param |-> ps[j]]]

RECURSIVE ParamLinesFrom(_, _, _, _, _)
\* the two nested loops of rule 3: [ep, param] for every line printed
ParamLinesFrom(endpoints, idxs, k, toks, acc) ==
    IF k > Len(idxs) THEN acc
    ELSE ParamLinesFrom(endpoints, idxs, k + 1, toks,
             acc \o Origins(idxs[k], EmittedParams(endpoints[idxs[k]], toks)))

\* the first API, in the order list_apis gave, with a token starting with its
\* base_url: its index in regs, as an Option
MatchedApi(regs, toks) ==
    First({k \in 1..Len(regs) : find_token_starting_with(toks, regs[k].base_url) # None})

\* whether the token under the cursor starts with the matched base_url
CursorOnBaseUrl(toks, current, base_url) ==
    current # None /\ StartsWith(toks[current[1]].text, base_url)

\* what a run of complete comes to when nothing is matched, printed or written
Quiet(toks, cf, ef) ==
    [result |-> "Ok", out |-> <<>>, src |-> <<>>, rule |-> 0, matched |-> None,
     cur |-> None, eps |-> <<>>, tokens |-> toks, tok_state |-> "ok",
     cf |-> cf, ef |-> ef, fetch |-> FALSE]

\* rule 1 printing {baseUrl}<TAB>{name}, without the slash
ShowApisWithoutSlash(toks, regs, cf, ef) ==
    [Quiet(toks, cf, ef) EXCEPT !.rule = 1,
        !.out = [k \in 1..Len(regs) |-> regs[k].base_url \o <<TAB>> \o regs[k].name]]

\* rule 1: no base_url found in tokens, show all API specs
ShowApis(toks, regs, cf, ef) ==
    [Quiet(toks, cf, ef) EXCEPT !.rule = 1,
        !.out = [k \in 1..Len(regs) |-> regs[k].base_url \o <<"/", TAB>> \o regs[k].name]]

\* a branch that called get_endpoints, with what it printed
Shown(toks, api, current, ge, rule_no, src, lines) ==
    [result |-> IF ge.exit THEN "exit1" ELSE "Ok",
     out |-> IF ge.exit THEN <<>> ELSE lines,
     src |-> IF ge.exit THEN <<>> ELSE src,
     rule |-> rule_no, matched |-> Some(api.name), cur |-> current,
     eps |-> ge.endpoints, tokens |-> toks, tok_state |-> "ok",
     cf |-> ge.cf, ef |-> ge.ef, fetch |-> ge.fetch]

\* rule 2 showing only the paths that contain what was typed after the base_url
ShowPathsFiltered(toks, api, current, ge) ==
    Shown(toks, api, current, ge, 2, <<>>,
          [i \in 1..Len(filter(ge.endpoints,
                                StripPrefixOr(toks[current[1]].text, api.base_url))) |->
              fish_complete_format(
                  ge.endpoints[filter(ge.endpoints,
                      StripPrefixOr(toks[current[1]].text, api.base_url))[i]],
                  api.base_url)])

\* rule 2: cursor is on base_url token, showing all paths
ShowPaths(toks, api, current, ge) ==
    Shown(toks, api, current, ge, 2, <<>>,
          [i \in 1..Len(ge.endpoints) |->
              fish_complete_format(ge.endpoints[all(ge.endpoints)[i]], api.base_url)])

\* the println of rule 3 for every [ep, param]
ParamLines(src) == [k \in 1..Len(src) |-> param_fish_complete_format(src[k].param)]

\* rule 3: show parameters for the matched path
ShowParams(toks, api, current, ge, path) ==
    Shown(toks, api, current, ge, 3,
          ParamLinesFrom(ge.endpoints, filter(ge.endpoints, path), 1, toks, <<>>),
          ParamLines(ParamLinesFrom(ge.endpoints, filter(ge.endpoints, path), 1, toks, <<>>)))

\* steps 2 to 4 of CompleteCommand::run, once an API is matched
CompleteMatched(toks, api, matched_token, current, ge) ==
    IF CursorOnBaseUrl(toks, current, api.base_url)
    THEN ShowPaths(toks, api, current, ge)
    ELSE ShowParams(toks, api, current, ge,
                    StripPrefixOr(matched_token.text, api.base_url))

\* CompleteCommand::run after Tokens::new
CompleteTokens(t, m, cp, regs, response, cf, ef) ==
    IF t.panic
    THEN [Quiet(<<>>, cf, ef) EXCEPT !.result = "panic", !.tok_state = "panic"]
    ELSE IF m = None THEN ShowApis(t.tokens, regs, cf, ef)
    ELSE CompleteMatched(t.tokens, regs[m[1]],
             t.tokens[find_token_starting_with(t.tokens, regs[m[1]].base_url)[1]],
             current_token(t.tokens, cp),
             get_endpoints(regs[m[1]], response[m[1]], cf, ef))

\* the tokenization and the search for a matched API
CompleteLine(t, cp, regs, response, cf, ef) ==
    CompleteTokens(t, MatchedApi(regs, t.tokens), cp, regs, response, cf, ef)

\* CompleteCommand::run.  regs is config.list_apis(), response[k] the server's
\* answer should get_endpoints ask for the document of regs[k].
complete(ln, cp, regs, response, cf, ef) ==
    CompleteLine(TokensNew(ln), cp, regs, response, cf, ef)

----------------------------------------------------------------------------
(* spec add, spec remove *)

\* ApiSpec::new
ApiSpec(name, spec_url, base_url) ==
    [name |-> name, spec_url |-> spec_url, base_url |-> base_url]

\* a check that lets every add through
NeverExists(name, force, table) == FALSE

\* !args.force && config.get_api(&args.name).is_some()
AlreadyExists(name, force, table) == ~force /\ table[name] # None

\* ApiSpecCommands::save_server with Config::add_api and Config::save.
\* resp1 answers the handler's own refresh, resp2 the one inside add_api.
save_server(name, spec_url, base_url, force, resp1, resp2, table, cf, ef) ==
    LET server == ApiSpec(name, spec_url, base_url)
        r1 == refresh_endpoints_cache(server, resp1, cf, ef)
        r2 == refresh_endpoints_cache(server, resp2, r1.cf, r1.ef)
    IN  IF AlreadyExists(name, force, table)
        THEN [result |-> "Err", out |-> <<>>, apis |-> table, cf |-> cf, ef |-> ef,
              fetch |-> FALSE]
        ELSE IF r1.exit
        THEN [result |-> "exit1", out |-> <<>>, apis |-> table, cf |-> cf, ef |-> ef,
              fetch |-> r1.fetch]
        ELSE IF r2.exit
        THEN [result |-> "exit1", out |-> <<>>, apis |-> table, cf |-> r1.cf,
              ef |-> r1.ef, fetch |-> TRUE]
        ELSE [result |-> "Ok",
              out |-> << <<IF force THEN "Updated API" ELSE "Added API", name,
                           "successfully">> >>,
              apis |-> [table EXCEPT ![name] = Some(server)],
              cf |-> r2.cf, ef |-> r2.ef, fetch |-> TRUE]

\* remove_server forgetting the raw spec file
remove_server_leaving_spec(name, table, cf, ef) ==
    IF table[name] # None
    THEN [result |-> "Ok", out |-> << <<"Removed API", name, "successfully">> >>,
          apis |-> [table EXCEPT ![name] = None],
          cf |-> cf, ef |-> [ef EXCEPT ![name] = None]]
    ELSE [result |-> "Err", out |-> <<>>, apis |-> table, cf |-> cf, ef |-> ef]

\* ApiSpecCommands::remove_server with Config::remove_api and Config::save
remove_server(name, table, cf, ef) ==
    IF table[name] # None
    THEN [result |-> "Ok", out |-> << <<"Removed API", name, "successfully">> >>,
          apis |-> [table EXCEPT ![name] = None],
          cf |-> [cf EXCEPT ![name] = None], ef |-> [ef EXCEPT ![name] = None]]
    ELSE [result |-> "Err", out |-> <<>>, apis |-> table, cf |-> cf, ef |-> ef]

\* the loop of refresh_server from names_to_refresh[k] on.  response[n] is
\* the server's answer for the document of API n; acc is what the loop has
\* done so far.
RECURSIVE RefreshFrom(_, _, _, _, _)
RefreshFrom(names_to_refresh, k, table, response, acc) ==
    IF k > Len(names_to_refresh) THEN acc
    ELSE IF table[names_to_refresh[k]] = None
    THEN RefreshFrom(names_to_refresh, k + 1, table, response,
                     [acc EXCEPT !.skipped = Append(@, names_to_refresh[k])])
    ELSE LET r == refresh_endpoints_cache(table[names_to_refresh[k]][1],
                                          response[names_to_refresh[k]], acc.cf, acc.ef)
         IN  IF r.exit
             THEN [acc EXCEPT !.result = "exit1", !.fetch = @ \/ r.fetch]
             ELSE RefreshFrom(names_to_refresh, k + 1, table, response,
                      [acc EXCEPT !.cf = r.cf, !.ef = r.ef, !.fetch = TRUE,
                                  !.out = Append(@, <<"Refreshed cache for API",
                                                      names_to_refresh[k],
                                                      "successfully">>)])

\* ApiSpecCommands::refresh_server.  listed is config.list_apis().
refresh_server(names, listed, table, response, cf, ef) ==
    RefreshFrom(IF names = <<>> THEN [k \in 1..Len(listed) |-> listed[k].name] ELSE names,
                1, table, response,
                [result |-> "Ok", out |-> <<>>, skipped |-> <<>>, cf |-> cf, ef |-> ef,
                 fetch |-> FALSE])

----------------------------------------------------------------------------
(* path, param *)

\* EndPoint::fzf_list_format
fzf_list_format(ep, base_url) == <<ep.method, " ">> \o base_url \o ep.path

\* EndPoints::find, as the index of the endpoint found
find(endpoints, path) == First({i \in 1..Len(endpoints) : endpoints[i].path = path})

\* what show_api_paths prints and returns once get_endpoints has answered ge
ShowApiPaths(api, pattern, fish, ge) ==
    IF ge.exit
    THEN [result |-> "exit1", out |-> <<>>, eps |-> <<>>, cf |-> ge.cf, ef |-> ge.ef,
          fetch |-> ge.fetch]
    ELSE LET filtered == IF pattern = None THEN all(ge.endpoints)
                         ELSE filter(ge.endpoints, pattern[1])
         IN  [result |-> "Ok",
              out |-> [i \in 1..Len(filtered) |->
                          IF fish
                          THEN fish_complete_format(ge.endpoints[filtered[i]], api.base_url)
                          ELSE fzf_list_format(ge.endpoints[filtered[i]], api.base_url)],
              eps |-> ge.endpoints, cf |-> ge.cf, ef |-> ge.ef, fetch |-> ge.fetch]

\* PathCommand::show_api_paths
show_api_paths(api, pattern, fish, response, cf, ef) ==
    ShowApiPaths(api, pattern, fish, get_endpoints(api, response, cf, ef))

\* for api in config.list_apis() { self.show_api_paths(api)?; } from listed[k] on
RECURSIVE ShowAllFrom(_, _, _, _, _, _)
ShowAllFrom(listed, k, pattern, fish, response, acc) ==
    IF k > Len(listed) THEN acc
    ELSE LET r == show_api_paths(listed[k], pattern, fish, response[listed[k].name],
                                 acc.cf, acc.ef)
             sofar == [r EXCEPT !.out = acc.out \o r.out, !.fetch = acc.fetch \/ r.fetch]
         IN  IF r.result = "exit1" THEN sofar
             ELSE ShowAllFrom(listed, k + 1, pattern, fish, response, sofar)

\* PathCommand::run
path_run(name, pattern, fish, listed, table, response, cf, ef) ==
    IF name = None
    THEN ShowAllFrom(listed, 1, pattern, fish, response,
                     [result |-> "Ok", out |-> <<>>, eps |-> <<>>, cf |-> cf, ef |-> ef,
                      fetch |-> FALSE])
    ELSE IF table[name[1]] = None
    THEN [result |-> "Err", out |-> <<>>, eps |-> <<>>, cf |-> cf, ef |-> ef,
          fetch |-> FALSE]
    ELSE show_api_paths(table[name[1]][1], pattern, fish, response[name[1]], cf, ef)

\* the params ParamCommand::run prints for an endpoint
FilteredParams(ep, pattern) ==
    LET Wanted(p) == pattern = None \/ Contains(p.name, pattern[1])
    IN  SortFrom(SelectSeq(ep.params, Wanted), 1, <<>>)

\* ParamCommand::run once get_endpoints has answered ge
ParamsOf(path, pattern, ge) ==
    IF ge.exit
    THEN [result |-> "exit1", out |-> <<>>, eps |-> <<>>, cf |-> ge.cf, ef |-> ge.ef,
          fetch |-> ge.fetch]
    ELSE IF find(ge.endpoints, path) = None
    THEN [result |-> "Err", out |-> <<>>, eps |-> ge.endpoints, cf |-> ge.cf,
          ef |-> ge.ef, fetch |-> ge.fetch]
    ELSE [result |-> "Ok",
          out |-> [i \in 1..Len(FilteredParams(ge.endpoints[find(ge.endpoints, path)[1]],
                                               pattern)) |->
                      param_fish_complete_format(
                          FilteredParams(ge.endpoints[find(ge.endpoints, path)[1]],
                                         pattern)[i])],
          eps |-> ge.endpoints, cf |-> ge.cf, ef |-> ge.ef, fetch |-> ge.fetch]

\* ParamCommand::run
param_run(name, path, pattern, table, response, cf, ef) ==
    IF table[name] = None
    THEN [result |-> "Err", out |-> <<>>, eps |-> <<>>, cf |-> cf, ef |-> ef,
          fetch |-> FALSE]
    ELSE ParamsOf(path, pattern, get_endpoints(table[name][1], response[name], cf, ef))

----------------------------------------------------------------------------
(* command/path_var.rs.  The arguments are a Vec<String>; a HashSet is a    *)
(* set handed out in an arbitrary order, a HashMap a function.               *)

Digits == {"0", "1", "2", "3", "4", "5", "6", "7", "8", "9"}
Letters ==
    {"a", "b", "c", "d", "e", "f", "g", "h", "i", "j", "k", "l", "m", "n", "o",
     "p", "q", "r", "s", "t", "u", "v", "w", "x", "y", "z",
     "A", "B", "C", "D", "E", "F", "G", "H", "I", "J", "K", "L", "M", "N", "O",
     "P", "Q", "R", "S", "T", "U", "V", "W", "X", "Y", "Z"}

\* char::is_alphanumeric, on the characters of the model
IsAlphanumeric(c) == c \in Letters \cup Digits

HttpScheme == <<"h", "t", "t", "p", ":", "/", "/">>
HttpsScheme == <<"h", "t", "t", "p", "s", ":", "/", "/">>

\* str::split_once(c): Some([head, tail]) around the first c, or None
split_once(s, c) ==
    LET at == Find(s, <<c>>)
    IN  IF at = None THEN None
        ELSE Some([head |-> SubSeq(s, 1, at[1]), tail |-> SliceFrom(s, at[1] + 1)])

\* str::split(c), as the sequence of the pieces
RECURSIVE SplitChar(_, _)
SplitChar(s, c) ==
    LET at == Find(s, <<c>>)
    IN  IF at = None THEN <<s>>
        ELSE <<SubSeq(s, 1, at[1])>> \o SplitChar(SliceFrom(s, at[1] + 1), c)

\* str::replace: every non-overlapping occurrence of a non-empty pattern, from
\* the left
RECURSIVE Replace(_, _, _)
Replace(s, from, to) ==
    IF Len(s) < Len(from) THEN s
    ELSE IF StartsWith(s, from) THEN to \o Replace(SliceFrom(s, Len(from)), from, to)
    ELSE <<s[1]>> \o Replace(SliceFrom(s, 1), from, to)

\* the host part holds only alphanumerics, '.', '-' and ':'
ValidHost(host) ==
    \A k \in 1..Len(host) : IsAlphanumeric(host[k]) \/ host[k] \in {".", "-", ":"}

\* PathVarCommand::is_url_like
is_url_like(s) ==
    IF StartsWith(s, HttpScheme) \/ StartsWith(s, HttpsScheme) THEN TRUE
    ELSE IF split_once(s, "/") = None THEN FALSE
    ELSE ValidHost(split_once(s, "/")[1].head)

\* PathVarCommand::extract_path_vars
extract_path_vars(url) ==
    {SplitChar(url, "/")[k] : k \in {j \in 1..Len(SplitChar(url, "/")) :
        /\ StartsWith(SplitChar(url, "/")[j], <<":">>)
        /\ Len(SplitChar(url, "/")[j]) > 1}}

\* HashMap::insert
MapInsert(map, key, value) ==
    [k \in DOMAIN map \cup {key} |-> IF k = key THEN value ELSE map[k]]

\* the test of process_var_assignments on one argument: it assigns a path
\* variable of the URL
IsVarAssignment(arg, path_vars) ==
    /\ split_once(arg, "=") # None
    /\ StartsWith(split_once(arg, "=")[1].head, <<":">>)
    /\ split_once(arg, "=")[1].head \in path_vars

RECURSIVE AssignFrom(_, _, _, _)
\* the for loop of process_var_assignments
AssignFrom(rest, k, path_vars, acc) ==
    IF k > Len(rest) THEN acc
    ELSE IF IsVarAssignment(rest[k], path_vars)
    THEN AssignFrom(rest, k + 1, path_vars,
             [acc EXCEPT !.var_values =
                 MapInsert(@, split_once(rest[k], "=")[1].head,
                           split_once(rest[k], "=")[1].tail)])
    ELSE AssignFrom(rest, k + 1, path_vars,
             [acc EXCEPT !.remaining_args = Append(@, rest[k])])

\* PathVarCommand::process_var_assignments: (var_values, remaining_args)
process_var_assignments(rest, path_vars) ==
    AssignFrom(rest, 1, path_vars, [var_values |-> <<>>, remaining_args |-> <<>>])

RECURSIVE ReplaceFrom(_, _, _, _)
\* the for loop of replace_path_vars over the variables in the order ord in
\* which the HashSet hands them out
ReplaceFrom(url, ord, k, var_values) ==
    IF k > Len(ord) THEN url
    ELSE IF ord[k] \in DOMAIN var_values
    THEN ReplaceFrom(Replace(url, ord[k], var_values[ord[k]]), ord, k + 1, var_values)
    ELSE ReplaceFrom(url, ord, k + 1, var_values)

\* PathVarCommand::replace_path_vars
replace_path_vars(url, ord, var_values) == ReplaceFrom(url, ord, 1, var_values)

\* args.iter().position(|arg| Self::is_url_like(arg))
UrlIndex(argv) == First({k \in 1..Len(argv) : is_url_like(argv[k])})

\* the orders in which a HashSet can be iterated
IterOrders(set) ==
    {s \in [1..Cardinality(set) -> set] : \A i, j \in DOMAIN s : s[i] = s[j] => i = j}

\* the path variables process_command_line extracts, none without a URL
PathVarsOf(argv) ==
    IF UrlIndex(argv) = None THEN {} ELSE extract_path_vars(argv[UrlIndex(argv)[1]])

\* the reconstruction that ends process_command_line
Reconstruct(argv, url_index, assigned, ord) ==
    Append(SubSeq(argv, 1, url_index - 1),
           replace_path_vars(argv[url_index], ord, assigned.var_values))
        \o assigned.remaining_args

\* PathVarCommand::process_command_line, ord being the iteration order of
\* path_vars
process_command_line(argv, ord) ==
    IF argv = <<>> \/ UrlIndex(argv) = None \/ PathVarsOf(argv) = {} THEN argv
    ELSE Reconstruct(argv, UrlIndex(argv)[1],
             process_var_assignments(SubSeq(argv, UrlIndex(argv)[1] + 1, Len(argv)),
                                     PathVarsOf(argv)),
             ord)

----------------------------------------------------------------------------
(* openapi/reference.rs.  A pointer is a sequence of pieces: the two       *)
(* component prefixes are one piece each and a schema name is one piece, so *)
(* that no piece and no run of pieces other than SchemasPrefix starts with  *)
(* SchemasPrefix.  ReferenceOr<T> is [is_ref, reference, item].             *)

SchemasPrefix == "#/components/schemas/"
ParametersPrefix == "#/components/parameters/"

\* ReferenceOr::Item(x)
Item(x) == [is_ref |-> FALSE, reference |-> <<>>, item |-> Some(x)]

\* ReferenceOr::Reference { reference }
Reference(pointer) == [is_ref |-> TRUE, reference |-> pointer, item |-> None]

\* str::trim_start_matches: the prefix is removed as often as it is repeated
RECURSIVE TrimStartMatches(_, _)
TrimStartMatches(s, p) ==
    IF p # <<>> /\ StartsWith(s, p)
    THEN TrimStartMatches(SliceFrom(s, Len(p)), p)
    ELSE s

\* IndexMap::get on a map kept as a sequence of [key, value] entries
MapGet(map, key) ==
    LET hit == First({i \in 1..Len(map) : map[i].key = key})
    IN  IF hit = None THEN None ELSE Some(map[hit[1]].value)

\* spec.components.as_ref().and_then(|c| c.schemas.get(schema_name))
SchemaEntry(spec, schema_name) ==
    IF spec.components = None THEN None
    ELSE MapGet(spec.components[1].schemas, schema_name)

\* the match on the entry: Some(schema) for an Item, None for a Reference
DirectSchema(entry) ==
    IF entry = None \/ entry[1].is_ref THEN None ELSE entry[1].item

\* resolve_schema_reference: Some(schema) for Ok, None for Err
resolve_schema_reference(pointer, spec) ==
    IF ~StartsWith(pointer, <<SchemasPrefix>>)
    THEN None
    ELSE DirectSchema(SchemaEntry(spec, TrimStartMatches(pointer, <<SchemasPrefix>>)))

----------------------------------------------------------------------------
(* impl From<OpenAPI> for EndPoints, with the conversions of param.rs.      *)
(* A Parameter is [kind, name, required, description]; a Schema is          *)
(* [kind, description, properties, required] with properties an IndexMap;   *)
(* a PathItem is [parameters, get, post, put, delete, patch, head, options, *)
(* trace]; an Operation is [summary, parameters, request_body].             *)

IsSome(opt) == opt # None

\* Iterator::filter_map(..).collect() over the Options of a sequence
Collect(opts) ==
    LET kept == SelectSeq(opts, IsSome)
    IN  [i \in 1..Len(kept) |-> kept[i][1]]

\* impl TryFrom<&Parameter> for Param: None for Err
param_try_from(parameter) ==
    IF parameter.kind = "Cookie"
    THEN None
    ELSE Some([name |-> parameter.name, required |-> parameter.required,
               source |-> parameter.kind, description |-> parameter.description])

\* object_type.required.contains(name)
IsIn(list, x) == \E i \in 1..Len(list) : list[i] = x

\* the Param pushed for one entry of object_type.properties
PropertyParam(property, required_list) ==
    [name |-> property.key, required |-> IsIn(required_list, property.key),
     source |-> "Body",
     description |-> IF property.value.is_ref THEN None
                     ELSE property.value.item[1].description]

\* Param::try_from_schema: None for Err
try_from_schema(sch) ==
    IF sch.kind = "object"
    THEN Some([i \in 1..Len(sch.properties) |->
                 PropertyParam(sch.properties[i], sch.required)])
    ELSE None

\* EndPoints::extract_referenced_parameter
extract_referenced_parameter(pointer, spec) ==
    LET found == resolve_schema_reference(pointer, spec)
    IN  IF found = None THEN None
        ELSE IF try_from_schema(found[1]) = None THEN None
        ELSE IF try_from_schema(found[1])[1] = <<>> THEN None
        ELSE Some(try_from_schema(found[1])[1][1])

\* EndPoints::extract_parameter
extract_parameter(parameter, spec) ==
    IF parameter.is_ref
    THEN extract_referenced_parameter(parameter.reference, spec)
    ELSE param_try_from(parameter.item[1])

\* EndPoints::extract_parameters
extract_parameters(parameters, spec) ==
    Collect([i \in 1..Len(parameters) |-> extract_parameter(parameters[i], spec)])

\* Result<Vec<Param>, String>::unwrap_or_default
ParamsOrDefault(r) == IF r = None THEN <<>> ELSE r[1]

\* EndPoints::extract_schema_parameters
extract_schema_parameters(schema_ref, spec) ==
    IF ~schema_ref.is_ref
    THEN ParamsOrDefault(try_from_schema(schema_ref.item[1]))
    ELSE IF resolve_schema_reference(schema_ref.reference, spec) = None
    THEN <<>>
    ELSE ParamsOrDefault(
             try_from_schema(resolve_schema_reference(schema_ref.reference, spec)[1]))

\* the schema of the application/json media type, if there is one
JsonSchema(body) ==
    LET media_type == MapGet(body.content, "application/json")
    IN  IF media_type = None THEN None ELSE media_type[1].schema

\* EndPoints::extract_request_body_parameters
extract_request_body_parameters(request_body, spec) ==
    IF request_body.is_ref THEN <<>>
    ELSE IF JsonSchema(request_body.item[1]) = None THEN <<>>
    ELSE extract_schema_parameters(JsonSchema(request_body.item[1])[1], spec)

\* the methods in alphabetical order
MethodsAlphabetical(path) ==
    << [method |-> "DELETE", op |-> path.delete], [method |-> "GET", op |-> path.get],
       [method |-> "HEAD", op |-> path.head], [method |-> "OPTIONS", op |-> path.options],
       [method |-> "PATCH", op |-> path.patch], [method |-> "POST", op |-> path.post],
       [method |-> "PUT", op |-> path.put] >>

\* let methods = vec![(Method::Get, &path.get), ...]
Methods(path) ==
    << [method |-> "GET", op |-> path.get], [method |-> "POST", op |-> path.post],
       [method |-> "PUT", op |-> path.put], [method |-> "DELETE", op |-> path.delete],
       [method |-> "PATCH", op |-> path.patch], [method |-> "HEAD", op |-> path.head],
       [method |-> "OPTIONS", op |-> path.options] >>

HasOp(m) == m.op # None

\* the EndPoint with the operation's own parameters ahead of the path's, and
\* none of the path's that the operation declares again
OperationEndPointOwnFirst(method_ty, op, path_str, common_params, spec) ==
    LET own == extract_parameters(op.parameters, spec)
        NotOwn(p) == \A k \in 1..Len(own) : own[k] # p
    IN  [method |-> method_ty, path |-> path_str, summary |-> op.summary,
         params |-> own \o SelectSeq(common_params, NotOwn)
                    \o (IF op.request_body = None THEN <<>>
                        ELSE extract_request_body_parameters(op.request_body[1], spec))]

\* the EndPoint pushed for one operation
OperationEndPoint(method_ty, op, path_str, common_params, spec) ==
    [method |-> method_ty, path |-> path_str, summary |-> op.summary,
     params |-> common_params \o extract_parameters(op.parameters, spec)
                \o (IF op.request_body = None THEN <<>>
                    ELSE extract_request_body_parameters(op.request_body[1], spec))]

\* the inner loop: the endpoints of one direct path item
PathEndPoints(path_str, path, common_params, spec) ==
    LET present == SelectSeq(Methods(path), HasOp)
    IN  [k \in 1..Len(present) |->
            OperationEndPoint(present[k].method, present[k].op[1], path_str,
                              common_params, spec)]

\* the outer loop over api.paths.paths from entry k on
RECURSIVE FromPaths(_, _, _)
FromPaths(api, k, acc) ==
    IF k > Len(api.paths) THEN acc
    ELSE IF api.paths[k].value.is_ref THEN FromPaths(api, k + 1, acc)
    ELSE FromPaths(api, k + 1,
             acc \o PathEndPoints(api.paths[k].key, api.paths[k].value.item[1],
                        extract_parameters(api.paths[k].value.item[1].parameters, api),
                        api))

\* EndPoints::from(api)
from_openapi(api) == FromPaths(api, 1, <<>>)

----------------------------------------------------------------------------
(* The inputs of the model *)

MaxCmdLen == 4

Names == {<<"a">>, <<"b">>}
BaseUrlOf(name) == IF name = <<"a">> THEN <<"u">> ELSE <<"u", "/">>
CmdAlphabet == {"u", "/", "p", " "}

OptQueryP == [name |-> <<"p">>, required |-> FALSE, source |-> "Query",
              description |-> None]
ReqPathPP == [name |-> <<"p", "p">>, required |-> TRUE, source |-> "Path",
              description |-> Some(<<"d">>)]
ReqHeaderP == [name |-> <<"p">>, required |-> TRUE, source |-> "Header",
               description |-> None]
OptBodyU == [name |-> <<"u">>, required |-> FALSE, source |-> "Body",
             description |-> Some(<<"d">>)]
OptFormUP == [name |-> <<"u", "p">>, required |-> FALSE, source |-> "Form",
              description |-> None]
ParamPool == {OptQueryP, ReqPathPP, ReqHeaderP, OptBodyU, OptFormUP}

DocA ==
    [parses |-> TRUE,
     resolved |-> <<
        [method |-> "GET", path |-> <<"/", "p">>, summary |-> None,
         params |-> <<OptQueryP, ReqPathPP, ReqHeaderP>>],
        [method |-> "POST", path |-> <<"/", "p", "p">>, summary |-> Some(<<"s">>),
         params |-> <<ReqHeaderP, OptBodyU>>] >>]
DocB ==
    [parses |-> TRUE,
     resolved |-> <<
        [method |-> "GET", path |-> <<"/">>, summary |-> Some(<<"s">>),
         params |-> <<>>],
        [method |-> "PUT", path |-> <<"/", "p", "/", "u">>, summary |-> None,
         params |-> <<OptBodyU, ReqPathPP>>] >>]
NotOpenApi == [parses |-> FALSE, resolved |-> <<>>]

SpecUrlOf(name) == IF name = <<"a">> THEN "http://s/a.json" ELSE "http://s/b.json"
Served(url) == IF url = "http://s/a.json" THEN DocA ELSE DocB

\* what a request for url can come back with
Responses(url) == {None, Some(NotOpenApi), Some(Served(url))}

\* lines on which a parameter has been typed with a value behind the base URL
\* of API a: "u :pp=1 ", "u p==1 ", "u p:1 ", "u u=1 ", "u up=1 "
TypedLines == {<<"u", " ">> \o httpie_param_format(q) \o <<"1", " ">> : q \in ParamPool}

\* all sequences over a set of at most n elements: the strings over an
\* alphabet, the Vecs over a pool
SeqsUpTo(elements, n) == UNION {[1..k -> elements] : k \in 0..n}

\* the orders in which a HashMap can hand out the registered APIs
Orders(table) ==
    LET reg == {n \in DOMAIN table : table[n] # None}
    IN  {s \in [1..Cardinality(reg) -> reg] : \A i, j \in DOMAIN s : s[i] = s[j] => i = j}

ListApis(table, ord) == [k \in 1..Len(ord) |-> table[ord[k]][1]]

----------------------------------------------------------------------------
(* The commands, each one process from start to exit *)

\* the server's answer to a request for url
Answer(kind, url) ==
    CASE kind = "fail" -> None
      [] kind = "garbage" -> Some(NotOpenApi)
      [] kind = "ok" -> Some(Served(url))

\* the state in which a run of complete leaves the process and the disk
CompleteEnds(ln, cp, ord, r) ==
    /\ line' = ln
    /\ cursor_pos' = cp
    /\ tokens' = r.tokens
    /\ tok_state' = r.tok_state
    /\ cur' = r.cur
    /\ order' = ord
    /\ matched' = r.matched
    /\ rule' = r.rule
    /\ eps' = r.eps
    /\ did_fetch' = r.fetch
    /\ out' = r.out
    /\ out_src' = r.src
    /\ result' = r.result
    /\ cache_file' = r.cf
    /\ endpoints_file' = r.ef
    /\ cmd' = "complete"
    /\ pc' = "done"
    /\ args' = [line |-> ln, cursor_pos |-> cp]
    /\ UNCHANGED <<apis, pureVars>>

\* httpie-oapi complete --line ln --cursor-pos cp
Complete(ln, cp) ==
    \E ord \in Orders(apis), kind \in {"fail", "garbage", "ok"} :
        CompleteEnds(ln, cp, ord,
            complete(ln, cp, ListApis(apis, ord),
                     [k \in 1..Len(ord) |-> Answer(kind, apis[ord[k]][1].spec_url)],
                     cache_file, endpoints_file))

\* the shell asks for completions of a line
CompleteCommand ==
    /\ pc = "shell"
    /\ \E ln \in SeqsUpTo(CmdAlphabet, MaxCmdLen) \cup TypedLines :
          \E cp \in 0..Len(ln) : Complete(ln, cp)

\* the shell asks again for the completions of the same line
CompleteAgain ==
    /\ pc = "done"
    /\ cmd = "complete"
    /\ Complete(line, cursor_pos)

\* httpie-oapi spec add name spec_url base_url [--force]
SpecAdd(name, spec_url, base_url, force) ==
    /\ pc = "shell"
    /\ \E resp1 \in Responses(spec_url), resp2 \in Responses(spec_url) :
          LET r == save_server(name, spec_url, base_url, force, resp1, resp2,
                               apis, cache_file, endpoints_file)
          IN  /\ apis' = r.apis
              /\ cache_file' = r.cf
              /\ endpoints_file' = r.ef
              /\ did_fetch' = r.fetch
              /\ out' = r.out
              /\ result' = r.result
    /\ cmd' = "spec add"
    /\ pc' = "done"
    /\ args' = [name |-> name, spec_url |-> spec_url, base_url |-> base_url,
                force |-> force]
    /\ UNCHANGED <<order, matched, rule, eps, out_src, tokVars, pureVars>>

\* httpie-oapi spec remove name
SpecRemove(name) ==
    /\ pc = "shell"
    /\ LET r == remove_server(name, apis, cache_file, endpoints_file)
       IN  /\ apis' = r.apis
           /\ cache_file' = r.cf
           /\ endpoints_file' = r.ef
           /\ out' = r.out
           /\ result' = r.result
    /\ cmd' = "spec remove"
    /\ pc' = "done"
    /\ args' = [name |-> name]
    /\ UNCHANGED <<order, matched, rule, eps, did_fetch, out_src, tokVars, pureVars>>

\* what the server answers for the document of each API during one command
AnswersOf(kinds, table) ==
    [n \in DOMAIN table |->
        IF table[n] = None THEN None ELSE Answer(kinds[n], table[n][1].spec_url)]

AnswerKinds == [Names -> {"fail", "garbage", "ok"}]

\* the state in which path and param leave the process and the disk
ListingEnds(r) ==
    /\ cache_file' = r.cf
    /\ endpoints_file' = r.ef
    /\ eps' = r.eps
    /\ did_fetch' = r.fetch
    /\ out' = r.out
    /\ result' = r.result
    /\ pc' = "done"
    /\ UNCHANGED <<apis, matched, rule, out_src, tokVars, pureVars>>

\* httpie-oapi path [--name name] [--pattern pattern] [--fish]
PathCommand(name, pattern, fish) ==
    /\ pc = "shell"
    /\ \E ord \in Orders(apis), kinds \in AnswerKinds :
          /\ ListingEnds(path_run(name, pattern, fish, ListApis(apis, ord), apis,
                                  AnswersOf(kinds, apis), cache_file, endpoints_file))
          /\ order' = ord
    /\ cmd' = "path"
    /\ args' = [name |-> name, pattern |-> pattern, fish |-> fish]

\* httpie-oapi param --name name --path path [--pattern pattern]
ParamCommand(name, path, pattern) ==
    /\ pc = "shell"
    /\ \E kinds \in AnswerKinds :
          ListingEnds(param_run(name, path, pattern, apis, AnswersOf(kinds, apis),
                                cache_file, endpoints_file))
    /\ cmd' = "param"
    /\ args' = [name |-> name, path |-> path, pattern |-> pattern]
    /\ UNCHANGED order

\* httpie-oapi spec refresh [names]
SpecRefresh(names) ==
    /\ pc = "shell"
    /\ \E ord \in Orders(apis), kinds \in AnswerKinds :
          LET r == refresh_server(names, ListApis(apis, ord), apis,
                                  AnswersOf(kinds, apis), cache_file, endpoints_file)
          IN  /\ cache_file' = r.cf
              /\ endpoints_file' = r.ef
              /\ did_fetch' = r.fetch
              /\ out' = r.out
              /\ result' = r.result
              /\ order' = ord
    /\ cmd' = "spec refresh"
    /\ pc' = "done"
    /\ args' = [names |-> names]
    /\ UNCHANGED <<apis, matched, rule, eps, out_src, tokVars, pureVars>>

\* between two commands the resolved-endpoint cache of a registered API is
\* deleted or overwritten with something unreadable
CacheDamaged(name, content) ==
    /\ pc = "shell"
    /\ apis[name] # None
    /\ endpoints_file[name] # None
    /\ try_from_json(endpoints_file[name][1]) # None
    /\ endpoints_file' = [endpoints_file EXCEPT ![name] = content]
    /\ UNCHANGED <<apis, cache_file, runVars, tokVars, pureVars>>

MaxNames == 2
Patterns == {None, Some(<<"p">>)}
AskedPaths == {<<"/", "p">>, <<"/">>, <<"p">>}

----------------------------------------------------------------------------
(* The tokenizer on its own: every line over TokAlphabet of at most          *)
(* MaxLineLen bytes, tokenized with every cursor position.                   *)

MaxLineLen == 6
TokAlphabet == {"a", " ", "'", "\\"}

InitSort ==
    /\ params = <<>>
    /\ sorted = <<>>
    /\ sort_pc = "new"
    /\ rendered = <<>>

InitRes ==
    /\ reference = <<>>
    /\ document = None
    /\ resolved = None
    /\ converted = <<>>
    /\ res_pc = "new"

InitPv ==
    /\ raw_args = <<>>
    /\ url_like = <<>>
    /\ iter_order = <<>>
    /\ processed = <<>>
    /\ pv_pc = "new"

\* no call has been made on the ApiSpec object
NoCall ==
    [seq |-> 0, op |-> "none", fetch |-> FALSE, read |-> FALSE, write |-> FALSE,
     doc |-> None, returned |-> <<>>]

InitMemo ==
    /\ cell = None
    /\ got = <<>>
    /\ last_call = NoCall
    /\ api_pc = "idle"

\* nothing that the other specifications use is going on
InitOther == InitPv /\ InitMemo

InitTok ==
    /\ line = <<>>
    /\ cursor_pos = 0
    /\ tokens = <<>>
    /\ tok_state = "input"
    /\ cur = None

IdleRun ==
    /\ pc = "shell"
    /\ cmd = "none"
    /\ order = <<>>
    /\ matched = None
    /\ rule = 0
    /\ eps = <<>>
    /\ did_fetch = FALSE
    /\ out = <<>>
    /\ out_src = <<>>
    /\ result = "Ok"
    /\ args = None

InitCmd ==
    /\ apis = [n \in Names |-> None]
    /\ cache_file = [n \in Names |-> None]
    /\ endpoints_file = [n \in Names |-> None]
    /\ IdleRun

\* one more byte of the line is typed
TypeChar(c) ==
    /\ tok_state = "input"
    /\ Len(line) < MaxLineLen
    /\ line' = Append(line, c)
    /\ UNCHANGED <<cursor_pos, tokens, tok_state, cur>>
    /\ UNCHANGED <<pureVars, cmdVars>>

\* Tokens::new(&line, cp)
NewTokens(cp) ==
    /\ tok_state = "input"
    /\ LET r == TokensNew(line)
       IN  /\ tok_state' = IF r.panic THEN "panic" ELSE "ok"
           /\ tokens' = IF r.panic THEN <<>> ELSE r.tokens
    /\ cursor_pos' = cp
    /\ UNCHANGED <<line, cur>>
    /\ UNCHANGED <<pureVars, cmdVars>>

\* tokens.current_token()
AskCurrentToken ==
    /\ tok_state = "ok"
    /\ cur' = current_token(tokens, cursor_pos)
    /\ tok_state' = "asked"
    /\ UNCHANGED <<line, cursor_pos, tokens>>
    /\ UNCHANGED <<pureVars, cmdVars>>

NextTok ==
    \/ \E c \in TokAlphabet : TypeChar(c)
    \/ \E cp \in 0..(Len(line) + 1) : NewTokens(cp)
    \/ AskCurrentToken

\* an empty line, nothing registered, nothing sorted
InitTokens == InitTok /\ InitSort /\ InitRes /\ InitOther /\ InitCmd

SpecTok == InitTokens /\ [][NextTok]_vars

----------------------------------------------------------------------------
(* The tokenizer on longer lines: words, blanks and escapes only, up to      *)
(* MaxEscapedLen bytes, the cursor at the end of the line.                   *)

MaxEscapedLen == 8
EscapedAlphabet == {"a", " ", "\\"}

\* one more byte of a line with escapes is typed
TypeEscaped(c) ==
    /\ tok_state = "input"
    /\ Len(line) < MaxEscapedLen
    /\ line' = Append(line, c)
    /\ UNCHANGED <<cursor_pos, tokens, tok_state, cur>>
    /\ UNCHANGED <<pureVars, cmdVars>>

NextEscaped ==
    \/ \E c \in EscapedAlphabet : TypeEscaped(c)
    \/ NewTokens(Len(line))
    \/ AskCurrentToken

SpecEscaped == InitTokens /\ [][NextEscaped]_vars

----------------------------------------------------------------------------
(* get_params_sort on its own: every params list over ParamPool of at most  *)
(* MaxParams entries                                                         *)

MaxParams == 3

InitParams ==
    /\ params \in SeqsUpTo(ParamPool, MaxParams)
    /\ sorted = <<>>
    /\ sort_pc = "new"
    /\ rendered = <<>>

\* let sorted = endpoint.get_params_sort()
GetParamsSort ==
    /\ sort_pc = "new"
    /\ sorted' = get_params_sort(params)
    /\ sort_pc' = "sorted"
    /\ UNCHANGED <<params, rendered>>
    /\ UNCHANGED <<tokVars, cmdVars, resVars, otherVars>>

\* println!("{}", param.fish_complete_format()) for each param
FishCompleteFormat ==
    /\ params # <<>>
    /\ rendered = <<>>
    /\ rendered' = [i \in 1..Len(params) |-> param_fish_complete_format(params[i])]
    /\ UNCHANGED <<params, sorted, sort_pc>>
    /\ UNCHANGED <<tokVars, cmdVars, resVars, otherVars>>

NextSort == GetParamsSort \/ FishCompleteFormat

\* an endpoint with its stored params, nothing else going on
InitEndPoint == InitTok /\ InitParams /\ InitRes /\ InitOther /\ InitCmd

SpecSort == InitEndPoint /\ [][NextSort]_vars

----------------------------------------------------------------------------
(* resolve_schema_reference on its own: every pointer of at most            *)
(* MaxPointerLen pieces against a document with and without components      *)

MaxPointerLen == 3
PointerPieces == {SchemasPrefix, ParametersPrefix, "User", "Id", "Alias"}

StringSchema(description) ==
    [kind |-> "string", description |-> description, properties |-> <<>>,
     required |-> <<>>]

\* {type: object, properties: {n: {type: string, description: d},
\*                             t: {$ref: #/components/schemas/Id}}, required: [n]}
UserSchema ==
    [kind |-> "object", description |-> None,
     properties |-> << [key |-> <<"n">>, value |-> Item(StringSchema(Some(<<"d">>)))],
                       [key |-> <<"t">>, value |-> Reference(<<SchemasPrefix, "Id">>)] >>,
     required |-> << <<"n">> >>]

\* components.schemas: User an object, Id a string, Alias a reference to User
Components ==
    [schemas |-> << [key |-> <<"User">>, value |-> Item(UserSchema)],
                    [key |-> <<"Id">>, value |-> Item(StringSchema(None))],
                    [key |-> <<"Alias">>,
                     value |-> Reference(<<SchemasPrefix, "User">>)] >>]

OpenAPI(components, paths) == [components |-> components, paths |-> paths]

InitReference ==
    /\ reference \in SeqsUpTo(PointerPieces, MaxPointerLen)
    /\ document \in {Some(OpenAPI(None, <<>>)), Some(OpenAPI(Some(Components), <<>>))}
    /\ resolved = None
    /\ converted = <<>>
    /\ res_pc = "new"

\* let schema = resolve_schema_reference(reference, spec)
ResolveSchemaReference ==
    /\ res_pc = "new"
    /\ resolved' = resolve_schema_reference(reference, document[1])
    /\ res_pc' = "resolved"
    /\ UNCHANGED <<reference, document, converted>>
    /\ UNCHANGED <<tokVars, sortVars, cmdVars, otherVars>>

NextRef == ResolveSchemaReference

\* a pointer and a document, nothing else going on
InitPointer == InitTok /\ InitSort /\ InitReference /\ InitOther /\ InitCmd

SpecRef == InitPointer /\ [][NextRef]_vars

----------------------------------------------------------------------------
(* From<OpenAPI> on its own.  Two families of documents: up to MaxPaths     *)
(* paths, direct or referenced, carrying any of the method sets; and one    *)
(* path whose GET operation declares up to MaxDecls parameters and one of   *)
(* the request bodies.                                                      *)

MaxPaths == 2
MaxDecls == 2

AllMethods == {"GET", "POST", "PUT", "DELETE", "PATCH", "HEAD", "OPTIONS", "TRACE"}
MethodSets == (SUBSET {"GET", "POST", "DELETE", "OPTIONS", "TRACE"}) \cup {AllMethods}
PathNames == {<<"/", "a">>, <<"/", "b">>}

Parameter(kind, name, required, description) ==
    [kind |-> kind, name |-> name, required |-> required, description |-> description]

Operation(summary, parameters, request_body) ==
    [summary |-> summary, parameters |-> parameters, request_body |-> request_body]

\* a PathItem with the operations of op_of for the methods of present
PathItemOf(parameters, present, op_of) ==
    LET At(m) == IF m \in present THEN Some(op_of[m]) ELSE None
    IN  [parameters |-> parameters, get |-> At("GET"), post |-> At("POST"),
         put |-> At("PUT"), delete |-> At("DELETE"), patch |-> At("PATCH"),
         head |-> At("HEAD"), options |-> At("OPTIONS"), trace |-> At("TRACE")]

QueryQ == Parameter("Query", <<"q">>, TRUE, Some(<<"d">>))
CookieC == Parameter("Cookie", <<"c">>, TRUE, None)
PathI == Parameter("Path", <<"i">>, TRUE, None)

UserPointer == <<SchemasPrefix, "User">>
TwicePrefixed == <<SchemasPrefix, SchemasPrefix, "User">>

\* what a parameters list can hold
DeclPool ==
    {Item(QueryQ), Item(CookieC), Item(PathI), Reference(UserPointer),
     Reference(<<ParametersPrefix, "User">>), Reference(TwicePrefixed)}

MediaType(schema_ref) == [schema |-> schema_ref]
RequestBody(content) == [content |-> content]
JsonBody(schema_ref) ==
    Some(Item(RequestBody(<< [key |-> "application/json",
                              value |-> MediaType(Some(schema_ref))] >>)))

\* what request_body can be
BodyPool ==
    {None, Some(Reference(<<ParametersPrefix, "User">>)),
     Some(Item(RequestBody(<<>>))),
     Some(Item(RequestBody(<< [key |-> "text/plain",
                               value |-> MediaType(Some(Item(UserSchema)))] >>))),
     Some(Item(RequestBody(<< [key |-> "application/json",
                               value |-> MediaType(None)] >>)))}
    \cup {JsonBody(Item(sch)) : sch \in {UserSchema, StringSchema(None)}}
    \cup {JsonBody(Reference(<<SchemasPrefix, n>>)) : n \in {"User", "Id", "Alias", "Nope"}}
    \cup {JsonBody(Reference(TwicePrefixed)), JsonBody(Reference(<<ParametersPrefix, "User">>))}

\* the operation of a method on a path: its summary names both, or is absent
SummaryOp(path_str, m) ==
    Operation(IF m \in {"GET", "PUT"} THEN None ELSE Some(path_str \o <<m>>),
              <<Item(QueryQ)>>, None)

\* the path items a path can have: a reference, or a direct item
PathEntries(path_str) ==
    {[key |-> path_str, value |-> Reference(<<"#/components/pathItems/", "x">>)]}
    \cup {[key |-> path_str,
           value |-> Item(PathItemOf(<<>>, present,
                                     [m \in AllMethods |-> SummaryOp(path_str, m)]))] :
             present \in MethodSets}

StructDocs ==
    {OpenAPI(Some(Components), paths) :
        paths \in {ps \in SeqsUpTo(UNION {PathEntries(n) : n \in PathNames}, MaxPaths) :
                      \A i, j \in DOMAIN ps : ps[i].key = ps[j].key => i = j}}

\* one path /a with GET and POST; GET declares op_params and body
ParamDoc(common, op_params, body) ==
    OpenAPI(Some(Components),
            << [key |-> <<"/", "a">>,
                value |-> Item(PathItemOf(common, {"GET", "POST"},
                              [m \in AllMethods |->
                                  IF m = "GET" THEN Operation(None, op_params, body)
                                  ELSE Operation(None, <<>>, None)]))] >>)

ParamDocs ==
    {ParamDoc(common, op_params, body) :
        common \in {<<>>} \cup {<<d>> : d \in DeclPool},
        op_params \in SeqsUpTo(DeclPool, MaxDecls),
        body \in BodyPool}

InitDocument ==
    /\ reference = <<>>
    /\ document \in {Some(d) : d \in StructDocs \cup ParamDocs}
    /\ resolved = None
    /\ converted = <<>>
    /\ res_pc = "new"

\* let endpoints = EndPoints::from(openapi)
FromOpenApi ==
    /\ res_pc = "new"
    /\ converted' = from_openapi(document[1])
    /\ res_pc' = "built"
    /\ UNCHANGED <<reference, document, resolved>>
    /\ UNCHANGED <<tokVars, sortVars, cmdVars, otherVars>>

NextFrom == FromOpenApi

\* a parsed document, nothing else going on
InitApi == InitTok /\ InitSort /\ InitDocument /\ InitOther /\ InitCmd

SpecFrom == InitApi /\ [][NextFrom]_vars

----------------------------------------------------------------------------
(* path-var on its own: every argument list of at most MaxArgs arguments    *)
(* over ArgPool, and each of the documented examples as a single argument.  *)

MaxArgs == 4

Http == <<"h", "t", "t", "p">>
PortOnly == <<":", "8">>
UrlNoVars == <<"h", ":", "8", "/", "u">>
UrlTwoVars == <<"h", ":", "8", "/", ":", "i", "/", ":", "i", "2">>
AssignI == <<":", "i", "=", "1">>
AssignI2 == <<":", "i", "2", "=", "5">>
AssignX == <<":", "x", "=", "9">>
Verbose == <<"-", "v">>
ArgPool == {Http, PortOnly, UrlNoVars, UrlTwoVars, AssignI, AssignI2, AssignX, Verbose}

\* the strings of tests::test_is_url_like and of the documentation
ValidUrls ==
    {<<"h", "t", "t", "p", ":", "/", "/", "e", "x", "a", "m", "p", "l", "e", ".", "c", "o", "m">>,
     <<"h", "t", "t", "p", "s", ":", "/", "/", "e", "x", "a", "m", "p", "l", "e", ".", "c", "o", "m">>,
     <<"l", "o", "c", "a", "l", "h", "o", "s", "t", ":", "8", "0", "8", "0">>,
     <<":", "8", "0", "8", "0">>,
     <<"e", "x", "a", "m", "p", "l", "e", ".", "c", "o", "m", ":", "8", "0", "8", "0">>,
     <<"e", "x", "a", "m", "p", "l", "e", ".", "c", "o", "m", ":", "8", "0", "8", "0", "/", "u", "s", "e", "r", "s">>,
     <<":", "8", "0", "8", "0", "/", "u", "s", "e", "r", "s", "/", ":", "i", "d">>,
     <<"l", "o", "c", "a", "l", "h", "o", "s", "t", ":", "8", "0", "8", "0", "/", "u", "s", "e", "r", "s", "/", ":", "i", "d", "/", "o", "r", "d", "e", "r", "s">>}
InvalidUrls ==
    {<<"h", "t", "t", "p">>,
     <<":", "8", "0", "=", "2", "2">>,
     <<":", "a", "=", "3", "2">>,
     <<"a", "=", "3">>,
     <<"f", "o", "o", "=", "=", "b", "a", "r">>,
     <<"A", "u", "t", "h", "o", "r", "i", "z", "a", "t", "i", "o", "n", ":", " ", "B", "e", "a", "r", "e", "r", " ", "1", "2", "3">>,
     <<"n", "o", "t", " ", "a", " ", "u", "r", "l">>}

InitArgs ==
    /\ raw_args \in SeqsUpTo(ArgPool, MaxArgs) \cup {<<s>> : s \in ValidUrls \cup InvalidUrls}
    /\ url_like = <<>>
    /\ iter_order = <<>>
    /\ processed = <<>>
    /\ pv_pc = "new"

\* Self::is_url_like(arg) for each of the arguments
IsUrlLike ==
    /\ pv_pc = "new"
    /\ url_like' = [k \in 1..Len(raw_args) |-> is_url_like(raw_args[k])]
    /\ pv_pc' = "classified"
    /\ UNCHANGED <<raw_args, iter_order, processed>>
    /\ UNCHANGED <<tokVars, sortVars, resVars, memoVars, cmdVars>>

\* let result = self.process_command_line()
ProcessCommandLine ==
    /\ pv_pc = "new"
    /\ \E ord \in IterOrders(PathVarsOf(raw_args)) :
          /\ iter_order' = ord
          /\ processed' = process_command_line(raw_args, ord)
    /\ pv_pc' = "processed"
    /\ UNCHANGED <<raw_args, url_like>>
    /\ UNCHANGED <<tokVars, sortVars, resVars, memoVars, cmdVars>>

NextPathVar == IsUrlLike \/ ProcessCommandLine

\* the arguments after `path-var --`, nothing else going on
InitPathVar == InitTok /\ InitSort /\ InitRes /\ InitArgs /\ InitMemo /\ InitCmd

SpecPathVar == InitPathVar /\ [][NextPathVar]_vars

----------------------------------------------------------------------------
(* One ApiSpec object in one process: get_endpoints and                      *)
(* refresh_endpoints_cache are called on it up to MaxCalls times, the server *)
(* answers each request with a failure, with something that is no OpenAPI    *)
(* document or with one of two documents, and between the calls the cache    *)
(* files can be deleted or overwritten.                                      *)

MaxCalls == 3

TheApi == ApiSpec(<<"a">>, SpecUrlOf(<<"a">>), BaseUrlOf(<<"a">>))
ServerAnswers == {None, Some(NotOpenApi), Some(DocA), Some(DocB)}
EndpointsFiles ==
    {None, Some([readable |-> FALSE, endpoints |-> <<>>]),
     Some([readable |-> TRUE, endpoints |-> DocA.resolved]),
     Some([readable |-> TRUE, endpoints |-> DocB.resolved])}
SpecFiles == {None, Some(DocA), Some(DocB)}

InitObject ==
    /\ apis = [n \in Names |-> IF n = TheApi.name THEN Some(TheApi) ELSE None]
    /\ cache_file \in {[n \in Names |-> IF n = TheApi.name THEN f ELSE None] :
                          f \in {None, Some(DocA)}}
    /\ endpoints_file \in {[n \in Names |-> IF n = TheApi.name THEN f ELSE None] :
                              f \in EndpointsFiles}
    /\ IdleRun
    /\ cell = None
    /\ got = <<>>
    /\ last_call = NoCall
    /\ api_pc = "running"

\* api.get_endpoints()
GetEndpoints(response) ==
    /\ api_pc = "running"
    /\ last_call.seq < MaxCalls
    /\ LET r == get_endpoints_in_process(cell, TheApi, response, cache_file,
                                         endpoints_file)
       IN  /\ cache_file' = r.call.cf
           /\ endpoints_file' = r.call.ef
           /\ api_pc' = IF r.call.exit THEN "exited" ELSE "running"
           /\ cell' = IF r.call.exit THEN cell ELSE Some(r.call.endpoints)
           /\ got' = IF r.call.exit THEN got ELSE Append(got, r.call.endpoints)
           /\ last_call' = [seq |-> last_call.seq + 1, op |-> "get",
                            fetch |-> r.call.fetch, read |-> r.read,
                            write |-> r.call.fetch /\ ~r.call.exit,
                            doc |-> IF r.call.fetch THEN response ELSE None,
                            returned |-> r.call.endpoints]
    /\ UNCHANGED <<apis, runVars, tokVars, sortVars, resVars, pvVars>>

\* api.refresh_endpoints_cache()
RefreshEndpointsCache(response) ==
    /\ api_pc = "running"
    /\ last_call.seq < MaxCalls
    /\ LET r == refresh_endpoints_cache(TheApi, response, cache_file, endpoints_file)
       IN  /\ cache_file' = r.cf
           /\ endpoints_file' = r.ef
           /\ api_pc' = IF r.exit THEN "exited" ELSE "running"
           /\ cell' = cell  \* the collection is returned, self.endpoints is not assigned
           /\ last_call' = [seq |-> last_call.seq + 1, op |-> "refresh",
                            fetch |-> r.fetch, read |-> FALSE,
                            write |-> r.fetch /\ ~r.exit,
                            doc |-> IF r.fetch THEN response ELSE None,
                            returned |-> r.endpoints]
    /\ UNCHANGED <<got, apis, runVars, tokVars, sortVars, resVars, pvVars>>

\* between two calls the cache files are deleted or overwritten
CacheFilesChanged(spec_file, eps_file) ==
    /\ api_pc = "running"
    /\ last_call.seq > 0
    /\ last_call.op # "change"
    /\ <<spec_file, eps_file>> # <<cache_file[TheApi.name], endpoints_file[TheApi.name]>>
    /\ cache_file' = [cache_file EXCEPT ![TheApi.name] = spec_file]
    /\ endpoints_file' = [endpoints_file EXCEPT ![TheApi.name] = eps_file]
    /\ last_call' = [last_call EXCEPT !.op = "change"]
    /\ UNCHANGED <<cell, got, api_pc, apis, runVars, tokVars, sortVars, resVars, pvVars>>

NextObject ==
    \/ \E response \in ServerAnswers : GetEndpoints(response)
    \/ \E response \in ServerAnswers : RefreshEndpointsCache(response)
    \/ \E spec_file \in SpecFiles, eps_file \in EndpointsFiles :
          CacheFilesChanged(spec_file, eps_file)

\* a process that holds the ApiSpec of a, nothing else going on
InitApiSpec == InitTok /\ InitSort /\ InitRes /\ InitPv /\ InitObject

SpecObject == InitApiSpec /\ [][NextObject]_vars

----------------------------------------------------------------------------
(* The commands run one after the other against the persisted registry and *)
(* the cache directory, starting with nothing registered and nothing cached *)

\* the process has exited, the shell is back at its prompt
Prompt ==
    /\ pc = "done"
    /\ line' = <<>>
    /\ cursor_pos' = 0
    /\ tokens' = <<>>
    /\ tok_state' = "input"
    /\ cur' = None
    /\ pc' = "shell"
    /\ cmd' = "none"
    /\ order' = <<>>
    /\ matched' = None
    /\ rule' = 0
    /\ eps' = <<>>
    /\ did_fetch' = FALSE
    /\ out' = <<>>
    /\ out_src' = <<>>
    /\ result' = "Ok"
    /\ args' = None
    /\ UNCHANGED <<diskVars, pureVars>>

Init == InitTok /\ InitSort /\ InitRes /\ InitOther /\ InitCmd

Next ==
    \/ CompleteCommand
    \/ \E name \in Names, force \in BOOLEAN :
          \E spec_url \in {SpecUrlOf(name), BadUrl} :
              SpecAdd(name, spec_url, BaseUrlOf(name), force)
    \/ \E name \in Names : SpecRemove(name)
    \/ \E names \in SeqsUpTo(Names, MaxNames) : SpecRefresh(names)
    \/ \E name \in {None} \cup {Some(n) : n \in Names}, pattern \in Patterns,
          fish \in BOOLEAN :
          PathCommand(name, pattern, fish)
    \/ \E name \in Names, path \in AskedPaths, pattern \in Patterns :
          ParamCommand(name, path, pattern)
    \/ \E name \in Names :
          \E content \in {None, Some([readable |-> FALSE, endpoints |-> <<>>])} :
              CacheDamaged(name, content)
    \/ Prompt

Spec == Init /\ [][Next]_vars

\* the same, with completions asked twice in a row for one line
NextTwice == Next \/ CompleteAgain

SpecTwice == Init /\ [][NextTwice]_vars

----------------------------------------------------------------------------
(* Vocabulary of the properties *)

Registered == {n \in Names : apis[n] # None}
BaseUrl(n) == apis[n][1].base_url

\* a run of complete has ended and Tokens::new had returned in it
Completed == pc = "done" /\ cmd = "complete" /\ tok_state = "ok"

\* some token's text starts with prefix
SomeTokenStartsWith(prefix) ==
    \E i \in 1..Len(tokens) : StartsWith(tokens[i].text, prefix)

\* the tokens whose inclusive [start, end] span holds the cursor
Holders == {i \in 1..Len(tokens) :
               tokens[i].start <= cursor_pos /\ cursor_pos <= tokens[i].end}

\* the token under the cursor, the first of Holders, starts with prefix
CursorTokenStartsWith(prefix) ==
    \E i \in Holders : (\A j \in Holders : i <= j) /\ StartsWith(tokens[i].text, prefix)

\* the first token whose text starts with prefix
FirstTokenStartingWith(prefix) ==
    tokens[CHOOSE i \in 1..Len(tokens) :
              /\ StartsWith(tokens[i].text, prefix)
              /\ \A j \in 1..(i - 1) : ~StartsWith(tokens[j].text, prefix)]

\* the text left of s once its first n bytes are removed
Without(s, n) == [k \in 1..(Len(s) - n) |-> s[k + n]]

\* needle occurs in hay
Occurs(needle, hay) ==
    \E a \in 0..(Len(hay) - Len(needle)) :
        \A k \in 1..Len(needle) : hay[a + k] = needle[k]

\* rule 2 applies and the endpoints were there to be shown
AtRule2 ==
    /\ Completed
    /\ result = "Ok"
    /\ matched # None
    /\ CursorTokenStartsWith(BaseUrl(matched[1]))

\* rule 3 applies and the endpoints were there to be searched
AtRule3 ==
    /\ Completed
    /\ result = "Ok"
    /\ matched # None
    /\ ~CursorTokenStartsWith(BaseUrl(matched[1]))

\* the path fragment of rule 3
Fragment ==
    Without(FirstTokenStartingWith(BaseUrl(matched[1])).text, Len(BaseUrl(matched[1])))

\* the lines of the output that come from endpoint i, as the params printed
PrintedOf(i) ==
    LET Mine(o) == o.ep = i
        mine == SelectSeq(out_src, Mine)
    IN  [k \in 1..Len(mine) |-> mine[k].param]

\* the params of endpoint i that no token of the line starts with the name of
NotYetTyped(i, Wanted(_)) ==
    LET Keep(p) == Wanted(p) /\ ~SomeTokenStartsWith(p.name)
    IN  SelectSeq(eps[i].params, Keep)

----------------------------------------------------------------------------
(* Completion *)

C2_ShowsEveryPath ==
    AtRule2 =>
        /\ endpoints_file[matched[1]] = Some([readable |-> TRUE, endpoints |-> eps])
        /\ Len(out) = Len(eps)
        /\ \A i \in 1..Len(eps) :
              out[i] = BaseUrl(matched[1]) \o eps[i].path \o <<TAB>>
                       \o (IF eps[i].summary = None THEN eps[i].path ELSE eps[i].summary[1])
        /\ out_src = <<>>

C2_Witness ==
    /\ AtRule2
    /\ Len(eps) = 2
    /\ \E i \in 1..Len(tokens) :
          /\ Len(tokens[i].text) > Len(BaseUrl(matched[1])) + 1
          /\ StartsWith(tokens[i].text, BaseUrl(matched[1]))
          /\ \A e \in 1..Len(eps) :
                ~Occurs(Without(tokens[i].text, Len(BaseUrl(matched[1]))), eps[e].path)

\* C3: when an API is matched and the cursor is not on a token starting with
\* its base URL, the fragment is the matched token's text without the base URL
\* prefix, the endpoints selected are exactly those whose path contains the
\* fragment, and a parameter of a selected endpoint is printed if and only if
\* no token of the line starts with the parameter's name.
C3_FiltersPathsAndParams ==
    AtRule3 =>
        /\ Len(out) = Len(out_src)
        /\ \A k \in 1..Len(out_src) :
              /\ out_src[k].ep \in 1..Len(eps)
              /\ Occurs(Fragment, eps[out_src[k].ep].path)
              /\ out[k] = param_fish_complete_format(out_src[k].param)
        /\ \A i \in 1..Len(eps) :
              /\ ~Occurs(Fragment, eps[i].path) => PrintedOf(i) = <<>>
              /\ Occurs(Fragment, eps[i].path) =>
                    /\ Len(PrintedOf(i)) = Len(NotYetTyped(i, LAMBDA p : TRUE))
                    /\ \A j \in 1..Len(eps[i].params) :
                          (\E k \in 1..Len(PrintedOf(i)) :
                                PrintedOf(i)[k] = eps[i].params[j])
                            <=> ~SomeTokenStartsWith(eps[i].params[j].name)

C3_Witness ==
    /\ AtRule3
    /\ Len(Fragment) > 1
    /\ \E i, j \in 1..Len(eps) :
          /\ Occurs(Fragment, eps[i].path)
          /\ ~Occurs(Fragment, eps[j].path)
          /\ PrintedOf(i) # <<>>
          /\ Len(PrintedOf(i)) < Len(eps[i].params)

\* C4, as claimed: in the rule 3 output, over all parameters of all matching
\* endpoints, every printed required parameter precedes every printed
\* optional one.
C4_RequiredFirstOverall ==
    AtRule3 =>
        \A k1, k2 \in 1..Len(out_src) :
            k1 < k2 => (out_src[k1].param.required \/ ~out_src[k2].param.required)

\* C4, amended: the rule 3 output lists the parameters endpoint by endpoint,
\* in collection order; among the parameters of one endpoint every printed
\* required parameter precedes every printed optional one, and parameters of
\* equal requiredness keep their declaration order.
C4_RequiredFirstPerEndpoint ==
    AtRule3 =>
        /\ \A k1, k2 \in 1..Len(out_src) : k1 < k2 => out_src[k1].ep <= out_src[k2].ep
        /\ \A i \in 1..Len(eps) :
              Occurs(Fragment, eps[i].path) =>
                  PrintedOf(i) = NotYetTyped(i, IsRequired) \o NotYetTyped(i, IsOptional)

C4_Witness ==
    /\ AtRule3
    /\ \E k1, k2 \in 1..Len(out_src) :
          /\ k1 < k2
          /\ ~out_src[k1].param.required
          /\ out_src[k2].param.required
    /\ \E i \in 1..Len(eps) :
          /\ Len(PrintedOf(i)) = 3
          /\ PrintedOf(i) # eps[i].params

\* C5: complete is a deterministic function of the line, the cursor position,
\* the registry and the cached endpoints: asked twice with the same inputs it
\* ends the same way, prints the same lines and uses the same API.
C5_SameInputsSameOutput ==
    [][(/\ pc = "done" /\ cmd = "complete"
        /\ pc' = "done" /\ cmd' = "complete"
        /\ line' = line /\ cursor_pos' = cursor_pos
        /\ ~did_fetch /\ ~did_fetch'
        /\ <<apis, cache_file, endpoints_file>>' = <<apis, cache_file, endpoints_file>>)
       => (result' = result /\ out' = out /\ matched' = matched)]_vars

\* C6: complete never ends in an error, whatever the line, the cursor, the
\* registry and the cache are and whether or not the document can be fetched.
C6_NeverFails == (pc = "done" /\ cmd = "complete") => result = "Ok"

----------------------------------------------------------------------------
(* Tokens *)

\* C7: current_token() returns a token if and only if the cursor lies in some
\* token's inclusive [start, end] span, and at most one token's span holds the
\* cursor, so the token returned is the only one.
C7_CursorInOneToken ==
    tok_state = "asked" =>
        /\ cur # None <=> Holders # {}
        /\ cur # None => cur[1] \in Holders
        /\ Cardinality(Holders) <= 1

\* C8: the tokens of Tokens::new have start <= end, are ordered by start, do
\* not overlap (each starts at or after the end of the one before) and lie
\* within the line.
C8_OffsetsWithinLine ==
    tok_state \in {"ok", "asked"} =>
        /\ \A i \in 1..Len(tokens) :
              /\ tokens[i].start <= tokens[i].end
              /\ tokens[i].end <= Len(line)
        /\ \A i \in 1..(Len(tokens) - 1) :
              /\ tokens[i].start <= tokens[i + 1].start
              /\ tokens[i].end <= tokens[i + 1].start

\* where the quote that is never closed opens: everything before it splits,
\* nothing from it on does
OpenQuoteAt(ln) ==
    CHOOSE q \in 1..Len(ln) :
        /\ Split(SubSeq(ln, 1, q - 1)).ok
        /\ \A r \in q..Len(ln) : ~Split(SubSeq(ln, 1, r)).ok

\* the words that are complete before the open quote: those of the text before
\* it, less the last one when the quote is glued to it
WordsBeforeOpenQuote(ln) ==
    LET before == SubSeq(ln, 1, OpenQuoteAt(ln) - 1)
        words == Split(before).words
    IN  IF Len(Split(Append(before, "a")).words) = Len(words) + 1
        THEN words
        ELSE SubSeq(words, 1, Len(words) - 1)

\* C9: on a line with an unterminated quote Tokens::new does not fail, and the
\* complete words before the quote are still tokens.
C9_WordsBeforeOpenQuoteKept ==
    (tok_state # "input" /\ ~Split(line).ok) =>
        /\ tok_state # "panic"
        /\ Len(tokens) >= Len(WordsBeforeOpenQuote(line))
        /\ \A k \in 1..Len(WordsBeforeOpenQuote(line)) :
              tokens[k].text = WordsBeforeOpenQuote(line)[k]

----------------------------------------------------------------------------
(* EndPoint *)

\* sorted is what the claim says get_params_sort makes of stored
SortedAsClaimed(stored, result_list) ==
    /\ get_params_sort(result_list) = result_list
    /\ Len(result_list) = Len(stored)
    /\ SelectSeq(result_list, IsRequired) = SelectSeq(stored, IsRequired)
    /\ SelectSeq(result_list, IsOptional) = SelectSeq(stored, IsOptional)
    /\ \A i, j \in 1..Len(result_list) :
          i < j => (result_list[i].required \/ ~result_list[j].required)

\* C10: get_params_sort is idempotent, returns a permutation of the params
\* with every required one before every optional one, keeps the order of two
\* required and of two optional params, and leaves the stored params as they
\* were.
C10_StableSortOfAClone ==
    [][(sort_pc = "new" /\ sort_pc' = "sorted")
       => (params' = params /\ SortedAsClaimed(params, sorted'))]_vars

C10_Witness ==
    /\ sort_pc = "sorted"
    /\ Len(params) = 3
    /\ ~params[1].required
    /\ params[2].required
    /\ params[3].required
    /\ params[2] # params[3]
    /\ sorted = <<params[2], params[3], params[1]>>

----------------------------------------------------------------------------
(* openapi/reference.rs *)

\* the schemas of the document, an empty map when it has no components
SchemasOf(spec) == IF spec.components = None THEN <<>> ELSE spec.components[1].schemas

\* the pointer is #/components/schemas/<name> and <name> is the key of a
\* direct schema: the entries it names
NamedBy(pointer, spec) ==
    {i \in 1..Len(SchemasOf(spec)) :
        /\ pointer = <<SchemasPrefix>> \o SchemasOf(spec)[i].key
        /\ ~SchemasOf(spec)[i].value.is_ref}

\* C11: resolve_schema_reference returns a schema if and only if the pointer
\* is exactly #/components/schemas/<name> with <name> the key of a direct
\* schema, and then returns that schema; every other pointer gives an error.
C11_ResolvesExactPointersOnly ==
    res_pc = "resolved" =>
        /\ resolved # None <=> NamedBy(reference, document[1]) # {}
        /\ \A i \in NamedBy(reference, document[1]) :
              resolved = SchemasOf(document[1])[i].value.item

----------------------------------------------------------------------------
(* impl From<OpenAPI> for EndPoints *)

Doc == document[1]
Built == res_pc = "built"

SevenMethods == <<"GET", "POST", "PUT", "DELETE", "PATCH", "HEAD", "OPTIONS">>
Rank(m) == CHOOSE r \in 1..Len(SevenMethods) : SevenMethods[r] = m

\* the operation a path item has for a method, if any
OpAt(path_item, m) ==
    CASE m = "GET" -> path_item.get
      [] m = "POST" -> path_item.post
      [] m = "PUT" -> path_item.put
      [] m = "DELETE" -> path_item.delete
      [] m = "PATCH" -> path_item.patch
      [] m = "HEAD" -> path_item.head
      [] m = "OPTIONS" -> path_item.options
      [] m = "TRACE" -> path_item.trace

DirectPaths == {k \in 1..Len(Doc.paths) : ~Doc.paths[k].value.is_ref}
PathItemAt(k) == Doc.paths[k].value.item[1]

\* the (path, method) pairs the document declares on direct path items
DeclaredPairs ==
    {<<k, r>> \in DirectPaths \X (1..Len(SevenMethods)) :
        OpAt(PathItemAt(k), SevenMethods[r]) # None}

\* the pair an endpoint was built for
PairOf(ep) ==
    <<CHOOSE k \in 1..Len(Doc.paths) : Doc.paths[k].key = ep.path, Rank(ep.method)>>

\* C12: resolving a document yields exactly one endpoint for each (path,
\* method) pair of a direct path item and a supported method present on it,
\* none for referenced path items, in document path order and within a path in
\* the order GET, POST, PUT, DELETE, PATCH, HEAD, OPTIONS, each with the
\* summary of its operation.
C12_OneEndpointPerOperation ==
    Built =>
        /\ Len(converted) = Cardinality(DeclaredPairs)
        /\ \A i \in 1..Len(converted) : PairOf(converted[i]) \in DeclaredPairs
        /\ \A i, j \in 1..Len(converted) :
              i < j =>
                  \/ PairOf(converted[i])[1] < PairOf(converted[j])[1]
                  \/ /\ PairOf(converted[i])[1] = PairOf(converted[j])[1]
                     /\ PairOf(converted[i])[2] < PairOf(converted[j])[2]
        /\ \A i \in 1..Len(converted) :
              converted[i].summary =
                  OpAt(PathItemAt(PairOf(converted[i])[1]), converted[i].method)[1].summary

\* a referenced path item before a direct one that has all eight operations
C12_Witness ==
    /\ Built
    /\ Len(Doc.paths) = 2
    /\ Doc.paths[1].value.is_ref
    /\ 2 \in DirectPaths
    /\ PathItemAt(2).trace # None
    /\ Len(converted) = Len(SevenMethods)
    /\ converted[2].summary # None

\* the operation an endpoint was built for, and its path item
ItemOf(ep) == PathItemAt(PairOf(ep)[1])
OpOf(ep) == OpAt(ItemOf(ep), ep.method)[1]

\* the params an endpoint has after those of the two parameters lists
BodyParams(ep) ==
    Without(ep.params,
            Len(extract_parameters(ItemOf(ep).parameters, Doc))
            + Len(extract_parameters(OpOf(ep).parameters, Doc)))

\* the object schema a request body gives as application/json, directly or
\* by one reference #/components/schemas/<name> to a direct schema
BodyObject(request_body) ==
    IF request_body = None \/ request_body[1].is_ref THEN None
    ELSE LET json == {i \in 1..Len(request_body[1].item[1].content) :
                         request_body[1].item[1].content[i].key = "application/json"}
         IN  IF json = {} THEN None
             ELSE LET media == request_body[1].item[1].content[CHOOSE i \in json : TRUE].value
                      named == IF media.schema = None \/ ~media.schema[1].is_ref THEN {}
                               ELSE NamedBy(media.schema[1].reference, Doc)
                      sch == IF media.schema = None THEN None
                             ELSE IF ~media.schema[1].is_ref THEN media.schema[1].item
                             ELSE IF named = {} THEN None
                             ELSE SchemasOf(Doc)[CHOOSE i \in named : TRUE].value.item
                  IN  IF sch # None /\ sch[1].kind = "object" THEN sch ELSE None

\* one Body param per property, required iff listed
ClaimedBodyParams(request_body) ==
    IF BodyObject(request_body) = None THEN <<>>
    ELSE LET sch == BodyObject(request_body)[1]
         IN  [i \in 1..Len(sch.properties) |->
                [name |-> sch.properties[i].key, source |-> "Body",
                 required |-> \E r \in 1..Len(sch.required) :
                                 sch.required[r] = sch.properties[i].key]]

NameSourceRequired(ps) ==
    [i \in 1..Len(ps) |->
        [name |-> ps[i].name, source |-> ps[i].source, required |-> ps[i].required]]

\* C13: a direct request body whose application/json schema is, or resolves
\* by one schema reference to, an object adds exactly one Body param per
\* property, required iff the property is in the required list; a non-object
\* schema, no application/json media type, an unresolvable schema reference or
\* a referenced request body adds no parameters.
C13_BodyParamsPerProperty ==
    Built =>
        \A i \in 1..Len(converted) :
            NameSourceRequired(BodyParams(converted[i]))
                = ClaimedBodyParams(OpOf(converted[i]).request_body)

\* s without its entry j
Dropped(s, j) == SubSeq(s, 1, j - 1) \o SubSeq(s, j + 1, Len(s))

\* a declared parameter the claim says is omitted: a Cookie parameter, or a
\* reference that is not #/components/schemas/<name> of a direct schema
Unsupported(decl) ==
    IF decl.is_ref
    THEN ~StartsWith(decl.reference, <<SchemasPrefix>>) \/ NamedBy(decl.reference, Doc) = {}
    ELSE decl.item[1].kind = "Cookie"

\* the document without entry j of the parameters of direct path k
WithoutPathParam(k, j) ==
    [Doc EXCEPT !.paths[k].value.item[1].parameters = Dropped(@, j)]

\* the document without entry j of the parameters of GET on direct path k
WithoutGetParam(k, j) ==
    [Doc EXCEPT !.paths[k].value.item[1].get[1].parameters = Dropped(@, j)]

\* C14: resolution degrades per element: with a Cookie parameter, or a
\* parameter reference that does not point into #/components/schemas/ or does
\* not resolve, the endpoints and all their other parameters are exactly what
\* they would be if that element were absent from the document.
C14_DegradesPerElement ==
    Built =>
        \A k \in DirectPaths :
            /\ \A j \in 1..Len(PathItemAt(k).parameters) :
                  Unsupported(PathItemAt(k).parameters[j])
                      => converted = from_openapi(WithoutPathParam(k, j))
            /\ PathItemAt(k).get # None =>
                  \A j \in 1..Len(PathItemAt(k).get[1].parameters) :
                      Unsupported(PathItemAt(k).get[1].parameters[j])
                          => converted = from_openapi(WithoutGetParam(k, j))

----------------------------------------------------------------------------
(* openapi/param.rs: rendering *)

ClaimedOperator(source) ==
    CASE source = "Query" -> <<"=", "=">>
      [] source \in {"Body", "Form", "Path"} -> <<"=">>
      [] source = "Header" -> <<":">>

ClaimedPrefix(source) == IF source = "Path" THEN <<":">> ELSE <<>>

ClaimedDesc(p) ==
    LET text == IF p.description = None THEN p.name ELSE p.description[1]
    IN  IF p.required THEN text ELSE <<"[">> \o text \o <<"]">>

\* C15: a parameter is rendered {prefix}{name}{operator}<TAB>{desc}: operator
\* == for Query, = for Body, Form and Path, : for Header; prefix : for Path and
\* empty otherwise; desc the description, or the name when there is none, in
\* brackets exactly when the parameter is optional.
C15_RenderedFromNameSourceRequiredDescription ==
    rendered # <<>> =>
        /\ Len(rendered) = Len(params)
        /\ \A i \in 1..Len(params) :
              rendered[i] = ClaimedPrefix(params[i].source) \o params[i].name
                            \o ClaimedOperator(params[i].source) \o <<"\t">>
                            \o ClaimedDesc(params[i])

\* a Query, a Path and a Form parameter rendered together
C15_Witness ==
    /\ Len(rendered) = 3
    /\ {params[i].source : i \in 1..3} = {"Query", "Path", "Form"}
    /\ rendered[1] = <<"p", "=", "=", "\t", "[", "p", "]">>

----------------------------------------------------------------------------
(* The endpoint cache and the registry commands *)

\* a command runs from the prompt to its end in this step
Runs(c) == pc = "shell" /\ pc' = "done" /\ cmd' = c

\* this step is a command that calls get_endpoints on the ApiSpec n, once
GetsEndpointsOf(n) ==
    \/ Runs("complete") /\ matched' = Some(n)
    \/ Runs("path") /\ args'.name = Some(n) /\ apis[n] # None
    \/ Runs("param") /\ args'.name = n /\ apis[n] # None

\* {n}.endpoints.json exists and parses
Readable(n) == endpoints_file[n] # None /\ endpoints_file[n][1].readable

\* the cached collection is returned, nothing is fetched or written
FromCache(n) ==
    /\ eps' = endpoints_file[n][1].endpoints
    /\ ~did_fetch'
    /\ result' # "exit1"
    /\ cache_file' = cache_file
    /\ endpoints_file' = endpoints_file

\* the document is fetched and resolved, both files are written, the fresh
\* collection is returned
Refreshed(n) ==
    /\ did_fetch'
    /\ result' # "exit1"
    /\ eps' = Served(apis[n][1].spec_url).resolved
    /\ cache_file' = [cache_file EXCEPT ![n] = Some(Served(apis[n][1].spec_url))]
    /\ endpoints_file' =
          [endpoints_file EXCEPT
              ![n] = Some([readable |-> TRUE,
                           endpoints |-> Served(apis[n][1].spec_url).resolved])]

\* the process exits with status 1, nothing is written or returned
Aborted(n) ==
    /\ did_fetch'
    /\ result' = "exit1"
    /\ out' = <<>>
    /\ cache_file' = cache_file
    /\ endpoints_file' = endpoints_file

C17_AddExistingNeedsForce ==
    [][(Runs("spec add") /\ ~args'.force /\ apis[args'.name] # None)
          => (result' = "Err" /\ ~did_fetch' /\ UNCHANGED diskVars)]_vars

C17_Witness ==
    /\ pc = "done"
    /\ cmd = "spec add"
    /\ ~args.force
    /\ result = "Err"
    /\ apis[args.name] # None
    /\ cache_file[args.name] # None

Refreshing == IF args'.names = <<>> THEN order' ELSE args'.names

\* C19: when the fetch or the parse fails during spec add or spec refresh the
\* command aborts and the registry and both cache files of that API are as
\* they were before the command started.
C19_FailedFetchLeavesNothing ==
    [][/\ (Runs("spec add") /\ result' = "exit1")
             => /\ apis' = apis
                /\ cache_file'[args'.name] = cache_file[args'.name]
                /\ endpoints_file'[args'.name] = endpoints_file[args'.name]
       /\ (Runs("spec refresh") /\ result' = "exit1")
             => /\ apis' = apis
                /\ \E k \in 1..Len(Refreshing) :
                      /\ apis[Refreshing[k]] # None
                      /\ cache_file'[Refreshing[k]] = cache_file[Refreshing[k]]
                      /\ endpoints_file'[Refreshing[k]] = endpoints_file[Refreshing[k]]
                      /\ \A j \in (k + 1)..Len(Refreshing) :
                            /\ cache_file'[Refreshing[j]] = cache_file[Refreshing[j]]
                            /\ endpoints_file'[Refreshing[j]]
                                  = endpoints_file[Refreshing[j]]]_vars

\* C20: a command given an API name that is not registered (path --name,
\* param --name, spec remove, spec refresh with names) ends with a not-found
\* failure, and so does param with a path that matches no endpoint.
C20_UnknownNameOrPathFails ==
    [][/\ (Runs("path") /\ args'.name # None /\ apis[args'.name[1]] = None)
             => result' = "Err"
       /\ (Runs("param") /\ apis[args'.name] = None) => result' = "Err"
       /\ (Runs("spec remove") /\ apis[args'.name] = None) => result' = "Err"
       /\ (Runs("spec refresh")
             /\ \E k \in 1..Len(args'.names) : apis[args'.names[k]] = None)
             => result' = "Err"
       /\ (Runs("param") /\ apis[args'.name] # None /\ result' # "exit1"
             /\ \A i \in 1..Len(eps') : eps'[i].path # args'.path)
             => result' = "Err"]_vars

----------------------------------------------------------------------------
(* command/path_var.rs *)

\* a port: one or more digits
IsPort(s) == s # <<>> /\ \A k \in 1..Len(s) : s[k] \in Digits

\* a domain: letters, digits, dots and dashes
IsDomain(s) == \A k \in 1..Len(s) : IsAlphanumeric(s[k]) \/ s[k] \in {".", "-"}

\* what comes before the first '/', the whole string when there is none
HostPart(s) == IF split_once(s, "/") = None THEN s ELSE split_once(s, "/")[1].head

\* domain:port, or :port alone
IsHostPort(host) ==
    /\ split_once(host, ":") # None
    /\ IsDomain(split_once(host, ":")[1].head)
    /\ IsPort(split_once(host, ":")[1].tail)

\* the documented forms: a full http:// or https:// URL, domain:port,
\* port-only, and any of these followed by a path
DocumentedUrlLike(s) ==
    \/ StartsWith(s, HttpScheme)
    \/ StartsWith(s, HttpsScheme)
    \/ IsHostPort(HostPart(s))

\* C21: is_url_like accepts exactly the strings of the documented forms (full
\* http:// or https:// URLs, domain:port, port-only, each with or without a
\* path) and rejects every other string.
C21_UrlLikeIffDocumentedForm ==
    pv_pc = "classified" =>
        \A k \in 1..Len(raw_args) : url_like[k] <=> DocumentedUrlLike(raw_args[k])

\* the arguments after position k
After(argv, k) == SubSeq(argv, k + 1, Len(argv))

\* the assignments name=value among the arguments, for a path variable name
AssignmentsOf(name, rest) ==
    {k \in 1..Len(rest) : split_once(rest[k], "=") # None
                          /\ split_once(rest[k], "=")[1].head = name}

\* the value assigned to a path variable: that of its last assignment
AssignedValue(name, rest) ==
    split_once(rest[CHOOSE k \in AssignmentsOf(name, rest) :
                        \A j \in AssignmentsOf(name, rest) : j <= k], "=")[1].tail

RECURSIVE Join(_, _)
\* the pieces with sep between them
Join(pieces, sep) ==
    IF Len(pieces) = 0 THEN <<>>
    ELSE IF Len(pieces) = 1 THEN pieces[1]
    ELSE pieces[1] \o sep \o Join(SubSeq(pieces, 2, Len(pieces)), sep)

\* the URL with each path-variable segment that has a value replaced by the
\* value, and nothing else touched
Substituted(url, rest) ==
    LET segs == SplitChar(url, "/")
        Sub(seg) == IF seg \in extract_path_vars(url) /\ AssignmentsOf(seg, rest) # {}
                    THEN AssignedValue(seg, rest) ELSE seg
    IN  Join([k \in 1..Len(segs) |-> Sub(segs[k])], <<"/">>)

\* the first argument of a documented URL form, as an Option
FirstUrl(argv) == First({k \in 1..Len(argv) : DocumentedUrlLike(argv[k])})

\* the output the command is to give for argv
ClaimedOutput(argv) ==
    IF FirstUrl(argv) = None \/ extract_path_vars(argv[FirstUrl(argv)[1]]) = {}
    THEN argv
    ELSE LET at == FirstUrl(argv)[1]
             rest == After(argv, at)
             Kept(arg) == ~IsVarAssignment(arg, extract_path_vars(argv[at]))
         IN  Append(SubSeq(argv, 1, at - 1), Substituted(argv[at], rest))
                 \o SelectSeq(rest, Kept)

\* C22: the output of path-var is the arguments before the first URL-like
\* argument unchanged, the URL with its path variables substituted, then the
\* arguments after it in order without the assignments to path variables of
\* the URL; without a URL-like argument or without path variables it is the
\* input.
C22_OutputIsInputWithUrlSubstituted ==
    pv_pc = "processed" => processed = ClaimedOutput(raw_args)

\* C27: replace_path_vars replaces each path-variable segment that has a value
\* by that value and leaves the rest of the URL, variables without a value
\* and variables with a longer name included, unchanged, whatever the
\* iteration order of the variable set.
C27_ReplacesWholeSegmentsOnly ==
    (pv_pc = "processed" /\ PathVarsOf(raw_args) # {}) =>
        processed[UrlIndex(raw_args)[1]] =
            Substituted(raw_args[UrlIndex(raw_args)[1]],
                        After(raw_args, UrlIndex(raw_args)[1]))

----------------------------------------------------------------------------
(* Tokens: offsets of the words *)

\* where the search for token k starts: the end of the token before it
PrevEnd(k) == IF k = 1 THEN 0 ELSE tokens[k - 1].end

\* the word of token k occurs verbatim at or after the end of the token before
FoundVerbatim(k) == Find(SliceFrom(line, PrevEnd(k)), tokens[k].text) # None

\* C25: a word that is not found verbatim at or after the previous token's end
\* gets start = end = the previous token's end, a span of length zero; for
\* every other word line[start..end) is the token's text.
C25_NotFoundDegradesToEmptySpan ==
    tok_state \in {"ok", "asked"} =>
        \A k \in 1..Len(tokens) :
            IF FoundVerbatim(k)
            THEN SubSeq(line, tokens[k].start + 1, tokens[k].end) = tokens[k].text
            ELSE tokens[k].start = PrevEnd(k) /\ tokens[k].end = PrevEnd(k)

\* C29: Tokens::new returns normally for every line and every cursor
\* position: the offset at which the line is sliced never exceeds its length,
\* so the slice never panics.
C29_TokensNewNeverPanics == tok_state # "panic"

----------------------------------------------------------------------------
(* impl From<OpenAPI> for EndPoints: the params of an endpoint *)

\* the parameters a list of declarations resolves to, in declaration order
ResolvedOf(decls) == extract_parameters(decls, Doc)

\* the parameters the request body of an operation gives
BodyOf(op) ==
    IF op.request_body = None THEN <<>>
    ELSE extract_request_body_parameters(op.request_body[1], Doc)

\* C26: the params of an endpoint are the resolved path-level parameters, then
\* the resolved parameters of the operation, then the request-body parameters,
\* each group in declaration order and nothing deduplicated; the path-level
\* part is the same for all methods of a path.
C26_PathThenOperationThenBody ==
    Built =>
        /\ \A i \in 1..Len(converted) :
              converted[i].params =
                  ResolvedOf(ItemOf(converted[i]).parameters)
                      \o ResolvedOf(OpOf(converted[i]).parameters)
                      \o BodyOf(OpOf(converted[i]))
        /\ \A i, j \in 1..Len(converted) :
              converted[i].path = converted[j].path =>
                  SubSeq(converted[i].params, 1,
                         Len(ResolvedOf(ItemOf(converted[i]).parameters)))
                      = SubSeq(converted[j].params, 1,
                               Len(ResolvedOf(ItemOf(converted[j]).parameters)))

\* GET declares the path-level parameter again, another one after it and a
\* body of two properties: the parameter is there twice, and POST has it once
C26_Witness ==
    /\ Built
    /\ Len(converted) = 2
    /\ ItemOf(converted[1]).parameters = <<Item(QueryQ)>>
    /\ OpOf(converted[1]).parameters = <<Item(QueryQ), Item(PathI)>>
    /\ Len(converted[1].params) = 5
    /\ converted[1].params[1] = converted[1].params[2]
    /\ converted[1].params[3].source = "Path"
    /\ converted[1].params[5].source = "Body"
    /\ Len(converted[2].params) = 1

----------------------------------------------------------------------------
(* Completion: parameters that are typed already *)

\* the completion text of a parameter: {prefix}{name}{operator}
CompletionText(q) == ClaimedPrefix(q.source) \o q.name \o ClaimedOperator(q.source)

\* C28: a parameter whose completion text ({prefix}{name}{operator}) some
\* token of the line begins with is not emitted by rule 3, whatever its
\* source.
C28_TypedParamNotSuggestedAgain ==
    AtRule3 =>
        \A i \in 1..Len(eps) :
            \A j \in 1..Len(eps[i].params) :
                SomeTokenStartsWith(CompletionText(eps[i].params[j]))
                    => \A k \in 1..Len(PrintedOf(i)) : PrintedOf(i)[k] # eps[i].params[j]

----------------------------------------------------------------------------
(* The cache directory and the registry *)

\* for every name the two cache files are both absent, or both present with
\* the endpoints file holding the resolution of the raw spec file, and only
\* registered names have cache files
Consistent ==
    \A n \in Names :
        /\ cache_file[n] = None <=> endpoints_file[n] = None
        /\ cache_file[n] # None =>
              /\ apis[n] # None
              /\ cache_file[n][1].parses
              /\ endpoints_file[n][1].readable
              /\ endpoints_file[n][1].endpoints = cache_file[n][1].resolved

\* a command runs from start to exit without a fatal error
RunsWithoutFatalError ==
    pc = "shell" /\ pc' = "done" /\ result' \notin {"exit1", "panic"}

----------------------------------------------------------------------------
(* ApiSpec: the endpoints cell *)

\* the last step was a call of get_endpoints that returned
GetReturned == last_call.op = "get" /\ api_pc = "running"

\* C23: of the get_endpoints calls on one ApiSpec in a process only the first
\* may read the cache file or fetch; every later call fetches nothing, reads
\* and writes no file and returns the collection of the first call, also
\* when the cache files were changed or deleted in between.
C23_LaterCallsReuseTheFirst ==
    (GetReturned /\ Len(got) >= 2) =>
        /\ ~last_call.fetch
        /\ ~last_call.read
        /\ ~last_call.write
        /\ last_call.returned = got[1]
        /\ got[Len(got)] = got[1]

\* the first call fetched and wrote both files, both were deleted, and the
\* object was asked again
C23_Witness ==
    /\ GetReturned
    /\ Len(got) = 2
    /\ got[1] = DocA.resolved
    /\ cache_file[TheApi.name] = None
    /\ endpoints_file[TheApi.name] = None

\* the step is call number seq + 1 on the object, and the call returned
Calls(op) ==
    last_call'.seq = last_call.seq + 1 /\ last_call'.op = op /\ api_pc' = "running"

\* C24: a successful refresh_endpoints_cache overwrites both cache files with
\* the fetched document and its resolution whatever they held, and a
\* get_endpoints that follows it on the same ApiSpec returns the refreshed
\* collection, also when an older collection was memoized.
C24_RefreshUpdatesFilesAndMemory ==
    [][/\ Calls("refresh") =>
             /\ cache_file'[TheApi.name] = last_call'.doc
             /\ endpoints_file'[TheApi.name] =
                    Some([readable |-> TRUE, endpoints |-> last_call'.doc[1].resolved])
       /\ (last_call.op = "refresh" /\ Calls("get")) =>
             last_call'.returned = last_call.returned]_vars

====
